---- MODULE Spec2Model ----
(***************************************************************************)
(* SensorBox serial session and line-protocol decoders.                    *)
(*                                                                         *)
(*   Spec        SerialWorker (Calibrator_V13.py and SensorReader_V12.py): *)
(*               the worker thread's loop interleaved with the UI thread's *)
(*               send_command() and stop().                                *)
(*   SpecReader  SensorReaderSegment1.handle_data: the SENSOR READINGS     *)
(*               block decoder.                                            *)
(*   SpecCal     CalibrationWindow.handle_data and                         *)
(*               CalibrationPlotWidget.update_from_equations: the          *)
(*               CALIBRATION EQUATIONS block decoder.                      *)
(*                                                                         *)
(* Text is a sequence of one-character strings, so that strip(), the       *)
(* substring tests and the regular expressions are computed on characters. *)
(***************************************************************************)
EXTENDS Integers, Sequences, FiniteSets, TLC

VARIABLES
    \* ---- SerialWorker ----
    variant,          \* which of the two SerialWorker classes runs
    running,          \* self.running
    serial_port,      \* self.serial_port: "None", "open" or "closed"
    reconnect_delay,  \* self.reconnect_delay
    wpc,              \* position of the worker thread inside run()
    upc,              \* position of the UI thread inside send_command()/stop()
    cmd,              \* argument of the send_command() call in progress
    emitted,          \* the signals emitted by the most recent step
    sendResult,       \* return value of the last finished send_command()
    written,          \* characters the last send_command() wrote to the port
    raised,           \* an exception left send_command()
    last,             \* name of the most recent step
    \* ---- history of the worker ----
    stopCalled,       \* stop() has been entered
    stopReturned,     \* stop() has returned
    fails,            \* failed connect() calls since start / last success
    failsBefore,      \* value of fails when the last connect() succeeded
    everConnected,    \* some connect() has succeeded
    lastSlept,        \* delay slept since the last connect attempt (0: none)
    sinceLost,        \* what followed the last "connection lost"
    hadReadError,     \* some read has raised
    hadWriteError,    \* some write has raised
    \* ---- the workers of one window ----
    workers,          \* SerialWorker objects the window has created
    oldOpen,          \* ports that workers the window has dropped left open
    stopCalls,        \* stop() calls made on the current worker
    heldFor,          \* <<seconds the worker's sleep still had to run at stop()>>
    \* ---- the path of a line from the port to handle_data ----
    tracing,          \* the behaviour records that path
    wire,             \* the readline() results so far, oldest first
    queue,            \* dataReceived emissions whose handle_data has not run
    delivered,        \* the arguments of the handle_data calls so far
    \* ---- SensorReaderSegment1 ----
    reading_buffer,   \* self._reading_buffer: <<>> is None, <<d>> a dict d
    reading,          \* [ec, temp, ph] parse_sensor_readings showed in the last
                      \* call (<<>>: it showed nothing); a field is <<number>>
                      \* or <<>> for None
    parseError,       \* parse_sensor_readings ended in its except clause
    produced,         \* dicts the last handle_data gave parse_sensor_readings
    healthCalled,     \* the last handle_data called update_health
    \* ---- history of the reader ----
    rlast,            \* the line the last handle_data was given (0: none)
    sawHeader,        \* a "SENSOR READINGS" header has been received
    fedSince,         \* the lines received since the last header
    callsSince,       \* parse_sensor_readings calls since the last header
    discardedKeys,    \* the fields the last header found collected
    reader_is_connected,  \* self.is_connected of the reader window
    rcall,            \* the method of the reader window that ran last
    cutSince,         \* disconnect() ran while the current block was collected
    prevSession,      \* the complete block before this one, while this one repeats it
    \* ---- CalibrationWindow ----
    in_equations,     \* self._in_equations
    equations_buffer, \* self._equations_buffer
    sensor_data,      \* self.plot_widget.sensor_data
    plotError,        \* update_from_equations ended in its except clause
    updates,          \* update_from_equations calls of the last handle_data
    dispatched,       \* the handler the last handle_data passed its line to
    metrics,          \* the R2 each label of quality_widget shows (<<>>: "--")
    statusLog,        \* what parse_status_compact logged in the last call
    statusSegs,       \* segments of the STATUS_COMPACT line of the last call
    \* ---- the device and the history of the calibration window ----
    devPhase,         \* what the device sent last in its current response
    devSec,           \* the section the device is sending (0: none yet)
    devPts,           \* P<n>: lines sent in that section
    intended,         \* what the current response reports, per channel
    blocksDone,       \* responses sent completely
    blockClean,       \* no other line arrived inside the current response
    otherFed,         \* the one other line of the run has been fed
    otherLine,        \* <<that line>> after the call that was given it
    clast,            \* kind of the last line fed
    prevBlock,        \* the response completed before the current one
    received,         \* <<the line handle_data was given>> in the last step
    \* ---- SensorReaderSegment1: averaging ----
    avg_buffer,       \* self._avg_buffer
    avg_count,        \* self._avg_count
    avg_spin,         \* self.avg_spin.value()
    timer_active,     \* self.measurement_timer.isActive()
    is_logging,       \* self.background_logger.is_logging
    collected_data,   \* self.collected_data
    plot_data,        \* the series of self.plot_widget
    stats_history,    \* the histories of self.stats_widget
    logged,           \* the rows background_logger has written
    given,            \* the block parse_sensor_readings was given last (0: none)
    alast             \* the method of the averaging part that ran last

wvars == <<variant, running, serial_port, reconnect_delay, wpc, upc, cmd,
           emitted, sendResult, written, raised, last, stopCalled,
           stopReturned, fails, failsBefore, everConnected, lastSlept,
           sinceLost, hadReadError, hadWriteError>>

rvars == <<reading_buffer, reading, parseError, produced, healthCalled, rlast, sawHeader,
           fedSince, callsSince, discardedKeys, reader_is_connected,
           rcall, cutSince, prevSession>>

cvars == <<in_equations, equations_buffer, sensor_data, plotError, updates,
           dispatched, metrics, statusLog, statusSegs,
           devPhase, devSec, devPts, intended, blocksDone,
           blockClean, otherFed, otherLine, clast, prevBlock,
           received>>

tvars == <<tracing, wire, queue, delivered>>

uvars == <<workers, oldOpen, stopCalls, heldFor>>

avars == <<avg_buffer, avg_count, avg_spin, timer_active, is_logging,
           collected_data, plot_data, stats_history, logged, given, alast>>

vars == <<wvars, rvars, cvars, tvars, uvars, avars>>

(***************************************************************************)
(* Text helpers                                                            *)
(***************************************************************************)

\* Characters str.strip() removes and the regular expressions' \s matches.
Ws == {" ", "\t", "\n", "\r"}

Min(a, b) == IF a <= b THEN a ELSE b

\* The one element of a singleton set.  {F(x) : x \in {e}} computes e once
\* and hands F its value.
The(S) == CHOOSE y \in S : TRUE

\* Position of the first character of s, from i on, that strip() keeps.
RECURSIVE LStrip(_, _)
LStrip(s, i) == IF i <= Len(s) /\ s[i] \in Ws THEN LStrip(s, i + 1) ELSE i

\* Position of the last character of s, up to n, that strip() keeps.
RECURSIVE RStrip(_, _)
RStrip(s, n) == IF n >= 1 /\ s[n] \in Ws THEN RStrip(s, n - 1) ELSE n

\* str.strip()
Strip(s) == SubSeq(s, LStrip(s, 1), RStrip(s, Len(s)))

\* A byte that is not valid UTF-8.
BadByte == "<ff>"

\* bytes.decode('utf-8', errors='ignore'): undecodable bytes are dropped.
Decode(raw) == SelectSeq(raw, LAMBDA c : c # BadByte)

(***************************************************************************)
(* SerialWorker                                                            *)
(***************************************************************************)

Variants == {"Calibrator_V13", "SensorReader_V12"}

\* Most consecutive failed connect() calls that are followed.
MaxFails == 7

max_reconnect_delay == 30

\* Lines as they arrive on the wire, terminator included.
WireLines ==
    { <<"O","K","\r","\n">>,
      <<" ","O","K"," ","\n">>,
      <<"\r","\n">>,
      <<"O",BadByte,"K","\n">> }

\* Commands the UI sends.
Commands == { <<"R","E","A","D">>, <<"D","I","A","G">> }

Sig(s, m, l) == [sig |-> s, msg |-> m, line |-> l]

ConnectedSig == Sig("connectionStatus.True", "Connected", <<>>)
FailedSig(v) ==
    Sig("connectionStatus.False",
        IF v = "Calibrator_V13" THEN "Connection failed" ELSE "Failed", <<>>)
LostSig(v) ==
    Sig("connectionStatus.False",
        IF v = "Calibrator_V13" THEN "Connection lost" ELSE "Lost", <<>>)
ReadErrorSig == Sig("errorOccurred", "Read error", <<>>)
SendErrorSig == Sig("errorOccurred", "Send error", <<>>)
DataSig(l) == Sig("dataReceived", "line", l)

\* self.serial_port and self.serial_port.is_open
IsOpen(p) == p = "open"

\* Mutant: the doubling without its ceiling.
Backoff_NoCap(d) == d * 2

\* Mutant: past the ceiling the delay starts again at 1.
Backoff_Restart(d) == IF d * 2 > max_reconnect_delay THEN 1 ELSE d * 2

\* min(self.reconnect_delay * 2, self.max_reconnect_delay)
Backoff(d) == Min(d * 2, max_reconnect_delay)

\* Mutant: a successful connect() keeps the delay it found.
DelayOnSuccess_Keep(d) == d

\* connect(): "self.reconnect_delay = 1" on success
DelayOnSuccess(d) == 1

InitWorker ==
    /\ variant \in Variants
    /\ running = TRUE
    /\ serial_port = "None"
    /\ reconnect_delay = 1
    /\ wpc = "while"
    /\ upc = "idle"
    /\ cmd = <<>>
    /\ emitted = <<>>
    /\ sendResult = "none"
    /\ written = <<>>
    /\ raised = FALSE
    /\ last = "init"
    /\ stopCalled = FALSE
    /\ stopReturned = FALSE
    /\ fails = 0
    /\ failsBefore = 0
    /\ everConnected = FALSE
    /\ lastSlept = 0
    /\ sinceLost = "none"
    /\ hadReadError = FALSE
    /\ hadWriteError = FALSE
    /\ workers = 1
    /\ oldOpen = 0
    /\ stopCalls = 0
    /\ heldFor = <<>>

uivars == <<upc, cmd, sendResult, written, raised, stopCalled, stopReturned,
            hadWriteError>>

\* run(): "while self.running:"
run_while ==
    /\ wpc = "while"
    /\ wpc' = IF running THEN "test" ELSE "done"
    /\ emitted' = <<>>
    /\ last' = "run_while"
    /\ UNCHANGED <<variant, running, serial_port, reconnect_delay, fails,
                   failsBefore, everConnected, lastSlept, sinceLost,
                   hadReadError>>
    /\ UNCHANGED uivars
    /\ UNCHANGED <<rvars, cvars, tvars, uvars, avars>>

\* run(): "if not self.serial_port or not self.serial_port.is_open:"
run_test_port ==
    /\ wpc = "test"
    /\ wpc' = IF ~IsOpen(serial_port) THEN "connect" ELSE "poll"
    /\ emitted' = <<>>
    /\ last' = "run_test_port"
    /\ UNCHANGED <<variant, running, serial_port, reconnect_delay, fails,
                   failsBefore, everConnected, lastSlept, sinceLost,
                   hadReadError>>
    /\ UNCHANGED uivars
    /\ UNCHANGED <<rvars, cvars, tvars, uvars, avars>>

\* What a connect attempt makes of the history since "connection lost".
AttemptAfter(s) == IF s = "lost" THEN "attempt_unslept" ELSE "none"

\* connect(): serial.Serial(...) opens the port; the settle sleep starts.
connect_open ==
    /\ wpc = "connect"
    /\ serial_port' = "open"
    /\ wpc' = "settle"
    /\ emitted' = <<>>
    /\ lastSlept' = 0
    /\ sinceLost' = AttemptAfter(sinceLost)
    /\ last' = "connect_open"
    /\ UNCHANGED <<variant, running, reconnect_delay, fails, failsBefore,
                   everConnected, hadReadError>>
    /\ UNCHANGED uivars
    /\ UNCHANGED <<rvars, cvars, tvars, uvars, avars>>

\* connect(): after time.sleep(0.5): emit "Connected", reset the delay,
\* return True; run() continues with the next iteration.
connect_settled ==
    /\ wpc = "settle"
    /\ emitted' = <<ConnectedSig>>
    /\ reconnect_delay' = DelayOnSuccess(reconnect_delay)
    /\ wpc' = "while"
    /\ failsBefore' = fails
    /\ fails' = 0
    /\ everConnected' = TRUE
    /\ sinceLost' = "none"
    /\ last' = "connect_settled"
    /\ UNCHANGED <<variant, running, serial_port, lastSlept, hadReadError>>
    /\ UNCHANGED uivars
    /\ UNCHANGED <<rvars, cvars, tvars, uvars, avars>>

\* connect(): serial.Serial(...) raises; emit the failure, return False;
\* run() goes on to the backoff sleep.
connect_fail ==
    /\ wpc = "connect"
    /\ fails < MaxFails
    /\ emitted' = <<FailedSig(variant)>>
    /\ wpc' = "sleep"
    /\ fails' = fails + 1
    /\ lastSlept' = 0
    /\ sinceLost' = AttemptAfter(sinceLost)
    /\ last' = "connect_fail"
    /\ UNCHANGED <<variant, running, serial_port, reconnect_delay,
                   failsBefore, everConnected, hadReadError>>
    /\ UNCHANGED uivars
    /\ UNCHANGED <<rvars, cvars, tvars, uvars, avars>>

\* run(): time.sleep(self.reconnect_delay) ends, then the delay is doubled.
run_backoff ==
    /\ wpc = "sleep"
    /\ lastSlept' = reconnect_delay
    /\ reconnect_delay' = Backoff(reconnect_delay)
    /\ wpc' = "while"
    /\ emitted' = <<>>
    /\ sinceLost' = IF sinceLost = "lost" THEN "slept" ELSE "none"
    /\ last' = "run_backoff"
    /\ UNCHANGED <<variant, running, serial_port, fails, failsBefore,
                   everConnected, hadReadError>>
    /\ UNCHANGED uivars
    /\ UNCHANGED <<rvars, cvars, tvars, uvars, avars>>

\* run(): in_waiting is 0; msleep(50).
run_poll_idle ==
    /\ wpc = "poll"
    /\ IsOpen(serial_port)
    /\ wpc' = "while"
    /\ emitted' = <<>>
    /\ last' = "run_poll_idle"
    /\ UNCHANGED <<variant, running, serial_port, reconnect_delay, fails,
                   failsBefore, everConnected, lastSlept, sinceLost,
                   hadReadError>>
    /\ UNCHANGED uivars
    /\ UNCHANGED <<rvars, cvars, tvars, uvars, avars>>

\* Most lines read from the port in a behaviour that records their path.
MaxWire == 3

\* Mutant: every line read is emitted, empty or not.
ForwardLine_All(raw) == <<DataSig(Strip(Decode(raw)))>>

\* Mutant: the line is emitted as decoded, untrimmed.
ForwardLine_Untrimmed(raw) ==
    IF Decode(raw) # <<>> THEN <<DataSig(Decode(raw))>> ELSE <<>>

\* The signals run() emits for one line read from the port.
ForwardLine(raw) ==
    LET line == Strip(Decode(raw))
    IN  IF line # <<>> THEN <<DataSig(line)>> ELSE <<>>

\* run(): readline().decode('utf-8', errors='ignore').strip(), emitted
\* when not empty; msleep(50).
run_poll_line ==
    /\ wpc = "poll"
    /\ IsOpen(serial_port)
    /\ \E raw \in WireLines :
          /\ emitted' = ForwardLine(raw)
          /\ IF tracing
             THEN /\ Len(wire) < MaxWire
                  /\ wire' = Append(wire, raw)
                  /\ queue' = queue \o [i \in 1..Len(ForwardLine(raw)) |->
                                            ForwardLine(raw)[i].line]
             ELSE UNCHANGED <<wire, queue>>
    /\ wpc' = "while"
    /\ last' = "run_poll_line"
    /\ UNCHANGED <<variant, running, serial_port, reconnect_delay, fails,
                   failsBefore, everConnected, lastSlept, sinceLost,
                   hadReadError>>
    /\ UNCHANGED uivars
    /\ UNCHANGED <<tracing, delivered>>
    /\ UNCHANGED <<rvars, cvars, uvars, avars>>

\* Mutant: the except clause goes to the backoff sleep.
AfterReadError_Backoff == "sleep"

\* Mutant: the except clause ends the loop.
AfterReadError_Exit == "done"

\* Where run() goes after its except clause: the next loop iteration.
AfterReadError == "while"

\* run(): in_waiting or readline() raises (a transport error, or the port was
\* closed by stop()); the except clause emits the error, closes the port and
\* emits "connection lost".
run_read_error ==
    /\ wpc = "poll"
    /\ emitted' = <<ReadErrorSig, LostSig(variant)>>
    /\ serial_port' = "closed"
    /\ wpc' = AfterReadError
    /\ sinceLost' = "lost"
    /\ hadReadError' = TRUE
    /\ last' = "run_read_error"
    /\ UNCHANGED <<variant, running, reconnect_delay, fails, failsBefore,
                   everConnected, lastSlept>>
    /\ UNCHANGED uivars
    /\ UNCHANGED <<rvars, cvars, tvars, uvars, avars>>

workervars == <<variant, running, serial_port, reconnect_delay, wpc, fails,
                failsBefore, everConnected, lastSlept, sinceLost,
                hadReadError>>

\* Mutant: the command is written without its terminator.
Encode_NoNewline(c) == c

\* f"{cmd}\n".encode()
Encode(c) == c \o <<"\n">>

\* send_command(): "if self.serial_port and self.serial_port.is_open:";
\* when it is false the call returns False.
send_command_check ==
    /\ upc = "idle"
    /\ \E c \in Commands : cmd' = c
    /\ IF IsOpen(serial_port)
       THEN /\ upc' = "write"
            /\ UNCHANGED <<sendResult, written>>
       ELSE /\ upc' = "idle"
            /\ sendResult' = "False"
            /\ written' = <<>>
    /\ emitted' = <<>>
    /\ last' = "send_command_check"
    /\ UNCHANGED <<variant, running, serial_port, reconnect_delay, wpc,
                   fails, failsBefore, everConnected, lastSlept, sinceLost,
                   hadReadError, raised, stopCalled, stopReturned,
                   hadWriteError>>
    /\ UNCHANGED <<rvars, cvars, tvars, uvars, avars>>

\* The signals the except clause of send_command() emits.
SendExcept(v) == IF v = "Calibrator_V13" THEN <<SendErrorSig>> ELSE <<>>

\* send_command(): self.serial_port.write(...) returns; return True.  When
\* the worker closed the port after the check, write() raises and the except
\* clause makes the call return False.
send_command_write ==
    /\ upc = "write"
    /\ IF IsOpen(serial_port)
       THEN /\ written' = Encode(cmd)
            /\ sendResult' = "True"
            /\ emitted' = <<>>
       ELSE /\ written' = <<>>
            /\ sendResult' = "False"
            /\ emitted' = SendExcept(variant)
    /\ raised' = FALSE
    /\ upc' = "idle"
    /\ last' = "send_command_write"
    /\ UNCHANGED <<variant, running, serial_port, reconnect_delay, wpc,
                   fails, failsBefore, everConnected, lastSlept, sinceLost,
                   hadReadError, cmd, stopCalled, stopReturned,
                   hadWriteError>>
    /\ UNCHANGED <<rvars, cvars, tvars, uvars, avars>>

\* send_command(): write() on the open port raises a transport error; the
\* except clause reports it (Calibrator_V13) or passes (SensorReader_V12) and
\* the call returns False.  The port is not touched.
send_command_write_error ==
    /\ upc = "write"
    /\ IsOpen(serial_port)
    /\ written' = <<>>
    /\ sendResult' = "False"
    /\ emitted' = SendExcept(variant)
    /\ raised' = FALSE
    /\ hadWriteError' = TRUE
    /\ upc' = "idle"
    /\ last' = "send_command_write_error"
    /\ UNCHANGED <<variant, running, serial_port, reconnect_delay, wpc,
                   fails, failsBefore, everConnected, lastSlept, sinceLost,
                   hadReadError, cmd, stopCalled, stopReturned>>
    /\ UNCHANGED <<rvars, cvars, tvars, uvars, avars>>

\* Most stop() calls made on one worker.
MaxStops == 2

\* Mutant: stop() leaves the flag as it is.
RunningAfterStop_Keep(r) == r

\* Mutant: stop() flips the flag.
RunningAfterStop_Toggle(r) == ~r

\* stop(): "self.running = False"
RunningAfterStop(r) == FALSE

\* The whole seconds a time.sleep(d) that has begun may still have to run:
\* the call returns only when d seconds are over, whatever stop() does.
SleepLeft(d) == {1, d}

\* stop(): "self.running = False".  When the worker is inside time.sleep,
\* heldFor records how long that sleep goes on after this call.
stop_set ==
    /\ upc = "idle"
    /\ stopCalls < MaxStops
    /\ stopCalls' = stopCalls + 1
    /\ IF wpc = "sleep" /\ heldFor = <<>>
       THEN \E left \in SleepLeft(reconnect_delay) : heldFor' = <<left>>
       ELSE UNCHANGED heldFor
    /\ running' = RunningAfterStop(running)
    /\ stopCalled' = TRUE
    /\ upc' = "stop_close"
    /\ emitted' = <<>>
    /\ last' = "stop_set"
    /\ UNCHANGED <<variant, serial_port, reconnect_delay, wpc, fails,
                   failsBefore, everConnected, lastSlept, sinceLost,
                   hadReadError, cmd, sendResult, written, raised,
                   stopReturned, hadWriteError>>
    /\ UNCHANGED <<workers, oldOpen>>
    /\ UNCHANGED <<rvars, cvars, tvars, avars>>

\* stop(): "if self.serial_port and self.serial_port.is_open: close()",
\* then the call returns.
stop_close ==
    /\ upc = "stop_close"
    /\ serial_port' = IF IsOpen(serial_port) THEN "closed" ELSE serial_port
    /\ stopReturned' = TRUE
    /\ upc' = "idle"
    /\ emitted' = <<>>
    /\ last' = "stop_close"
    /\ UNCHANGED <<variant, running, reconnect_delay, wpc, fails,
                   failsBefore, everConnected, lastSlept, sinceLost,
                   hadReadError, cmd, sendResult, written, raised,
                   stopCalled, hadWriteError>>
    /\ UNCHANGED <<rvars, cvars, tvars, uvars, avars>>

\* Most SerialWorker objects one window creates.
MaxWorkers == 2

\* connect() of the window after a disconnect(): disconnect() has called
\* stop() and wait(), so run() of the old worker has returned; self.worker is
\* bound to a new SerialWorker on the same port.  Nothing closes a port the
\* old worker left open.
window_connect ==
    /\ upc = "idle"
    /\ stopReturned
    /\ wpc = "done"
    /\ workers < MaxWorkers
    /\ workers' = workers + 1
    /\ oldOpen' = IF IsOpen(serial_port) THEN oldOpen + 1 ELSE oldOpen
    /\ running' = TRUE
    /\ serial_port' = "None"
    /\ reconnect_delay' = 1
    /\ wpc' = "while"
    /\ cmd' = <<>>
    /\ emitted' = <<>>
    /\ sendResult' = "none"
    /\ written' = <<>>
    /\ raised' = FALSE
    /\ last' = "window_connect"
    /\ stopCalled' = FALSE
    /\ stopReturned' = FALSE
    /\ fails' = 0
    /\ failsBefore' = 0
    /\ everConnected' = FALSE
    /\ lastSlept' = 0
    /\ sinceLost' = "none"
    /\ hadReadError' = FALSE
    /\ hadWriteError' = FALSE
    /\ stopCalls' = 0
    /\ heldFor' = <<>>
    /\ UNCHANGED <<variant, upc>>
    /\ UNCHANGED <<rvars, cvars, tvars, avars>>

\* The interpreter finalizes a worker object the window no longer refers to
\* ("self.worker = None", or the rebinding in connect()), and with it the
\* Serial object of a port that worker left open.  The source fixes no time
\* for it.
old_port_finalized ==
    /\ oldOpen > 0
    /\ oldOpen' = oldOpen - 1
    /\ UNCHANGED <<workers, stopCalls, heldFor>>
    /\ UNCHANGED <<wvars, rvars, cvars, tvars, avars>>

Next ==
    \/ run_while
    \/ run_test_port
    \/ connect_open
    \/ connect_settled
    \/ connect_fail
    \/ run_backoff
    \/ run_poll_idle
    \/ run_poll_line
    \/ run_read_error
    \/ send_command_check
    \/ send_command_write
    \/ send_command_write_error
    \/ stop_set
    \/ stop_close
    \/ window_connect
    \/ old_port_finalized

(***************************************************************************)
(* Regular expressions of the decoders                                     *)
(***************************************************************************)

Digits == {"0", "1", "2", "3", "4", "5", "6", "7", "8", "9"}

\* The character class [-\d.]
NumChars == Digits \cup {"-", "."}

UpperCase == <<"A","B","C","D","E","F","G","H","I","J","K","L","M","N","O","P","Q","R","S","T","U","V","W","X","Y","Z">>
LowerCase == <<"a","b","c","d","e","f","g","h","i","j","k","l","m","n","o","p","q","r","s","t","u","v","w","x","y","z">>

\* Case folding of re.IGNORECASE and of str.upper() comparisons.
ToLower(c) ==
    IF \E i \in 1..26 : UpperCase[i] = c
    THEN LowerCase[CHOOSE i \in 1..26 : UpperCase[i] = c]
    ELSE c

\* The literal lit stands in s at position i.
LitAt(s, i, lit, icase) ==
    /\ i + Len(lit) - 1 <= Len(s)
    /\ \A k \in 1..Len(lit) :
          IF icase THEN ToLower(s[i + k - 1]) = ToLower(lit[k])
                   ELSE s[i + k - 1] = lit[k]

\* "needle in s"
Contains(s, needle) ==
    \E i \in 1..(Len(s) + 1) : LitAt(s, i, needle, FALSE)

\* str.startswith
StartsWith(s, prefix) == LitAt(s, 1, prefix, FALSE)

\* First position from j on whose character is not in set: the end of a
\* greedy run.
RECURSIVE RunEnd(_, _, _)
RunEnd(s, j, set) ==
    IF j <= Len(s) /\ s[j] \in set THEN RunEnd(s, j + 1, set) ELSE j

NOT_CALIBRATED == <<"N","O","T"," ","C","A","L","I","B","R","A","T","E","D">>

\* \s*([-\d.]+|NOT CALIBRATED) from position j, or \s*([-\d.]+) when notcal
\* is FALSE: <<group 1>>, or <<>> without a match.  The group cannot start
\* with whitespace, so giving whitespace back never helps.
ValueAt(s, j, notcal) ==
    LET k == RunEnd(s, j, Ws)
        e == RunEnd(s, k, NumChars)
    IN  IF e > k THEN <<SubSeq(s, k, e - 1)>>
        ELSE IF notcal /\ LitAt(s, k, NOT_CALIBRATED, TRUE)
             THEN <<SubSeq(s, k, k + Len(NOT_CALIBRATED) - 1)>>
        ELSE <<>>

\* (?:name1|name2):<value> at position i, the alternatives tried in order.
RECURSIVE FieldAt(_, _, _, _, _, _)
FieldAt(s, i, names, n, icase, notcal) ==
    IF n > Len(names) THEN <<>>
    ELSE LET lit == names[n] \o <<":">>
             r == IF LitAt(s, i, lit, icase)
                  THEN ValueAt(s, i + Len(lit), notcal)
                  ELSE <<>>
         IN  IF r # <<>> THEN r
             ELSE FieldAt(s, i, names, n + 1, icase, notcal)

\* re.search: the leftmost match from position i on.
RECURSIVE FieldSearch(_, _, _, _, _)
FieldSearch(s, i, names, icase, notcal) ==
    IF i > Len(s) THEN <<>>
    ELSE LET r == FieldAt(s, i, names, 1, icase, notcal)
         IN  IF r # <<>> THEN r
             ELSE FieldSearch(s, i + 1, names, icase, notcal)

\* re.search(r"EC:\s*([-\d.]+|NOT CALIBRATED)", data, re.IGNORECASE)
ec_m(data) == FieldSearch(data, 1, <<<<"E","C">>>>, TRUE, TRUE)

\* re.search(r"(?:Temp|T):\s*([-\d.]+)", data)
temp_m(data) == FieldSearch(data, 1, <<<<"T","e","m","p">>, <<"T">>>>, FALSE, FALSE)

\* re.search(r"pH:\s*([-\d.]+|NOT CALIBRATED)", data, re.IGNORECASE)
ph_m(data) == FieldSearch(data, 1, <<<<"p","H">>>>, TRUE, TRUE)

(***************************************************************************)
(* float()                                                                 *)
(***************************************************************************)

\* Decimals the model of float() keeps: a value is held as an integer count
\* of 10^-FracDigits.
FracDigits == 4

\* The number m * 10^-e as the model holds it.
Dec(m, e) == m * 10 ^ (FracDigits - e)

DigitSeq == <<"0","1","2","3","4","5","6","7","8","9">>

DigitVal(c) == (CHOOSE i \in 1..10 : DigitSeq[i] = c) - 1

\* Value of the first n characters of the digit string s.
RECURSIVE DigitsVal(_, _)
DigitsVal(s, n) ==
    IF n = 0 THEN 0 ELSE DigitsVal(s, n - 1) * 10 + DigitVal(s[n])

\* float(s) for s made of the characters of [-\d.]: <<value>>, or <<>> when
\* float() raises ValueError (no digit, a second ".", a "-" that is not the
\* first character).
ParseFloat(s) ==
    LET neg  == s # <<>> /\ s[1] = "-"
        body == IF neg THEN Tail(s) ELSE s
        dots == {i \in 1..Len(body) : body[i] = "."}
        ok   == /\ \A i \in 1..Len(body) : body[i] \in Digits \cup {"."}
                /\ Cardinality(dots) <= 1
                /\ \E i \in 1..Len(body) : body[i] \in Digits
        dot  == IF dots = {} THEN Len(body) + 1 ELSE CHOOSE i \in dots : TRUE
        ip   == SubSeq(body, 1, dot - 1)
        fp   == SubSeq(body, dot + 1, Min(Len(body), dot + FracDigits))
        mag  == DigitsVal(ip, Len(ip)) * 10 ^ FracDigits
                  + DigitsVal(fp, Len(fp)) * 10 ^ (FracDigits - Len(fp))
    IN  IF ok THEN <<IF neg THEN 0 - mag ELSE mag>> ELSE <<>>

(***************************************************************************)
(* SensorReaderSegment1.handle_data                                        *)
(***************************************************************************)

\* Most lines fed after one "SENSOR READINGS" header.
MaxBlockLines == 4

SENSOR_READINGS == <<"S","E","N","S","O","R"," ","R","E","A","D","I","N","G","S">>

\* The lines the reader is fed: the text, and the fields the device put in it.
ReaderLines == <<
    [text |-> <<"S","E","N","S","O","R"," ","R","E","A","D","I","N","G","S">>, ec |-> <<>>, temp |-> <<>>, ph |-> <<>>],
    [text |-> <<"E","C",":"," "," "," ","0",".","0"," ","u","S","/","c","m">>, ec |-> <<<<"0",".","0">>>>, temp |-> <<>>, ph |-> <<>>],
    [text |-> <<"E","C",":"," ","N","O","T"," ","C","A","L","I","B","R","A","T","E","D">>, ec |-> <<<<"N","O","T"," ","C","A","L","I","B","R","A","T","E","D">>>>, temp |-> <<>>, ph |-> <<>>],
    [text |-> <<"T","e","m","p",":"," ","2","2",".","1"," ","C">>, ec |-> <<>>, temp |-> <<<<"2","2",".","1">>>>, ph |-> <<>>],
    [text |-> <<"T",":"," ","-","3",".","5">>, ec |-> <<>>, temp |-> <<<<"-","3",".","5">>>>, ph |-> <<>>],
    [text |-> <<"p","H",":"," "," "," ","5",".","2","4">>, ec |-> <<>>, temp |-> <<>>, ph |-> <<<<"5",".","2","4">>>>],
    [text |-> <<"p","h",":"," ","n","o","t"," ","c","a","l","i","b","r","a","t","e","d">>, ec |-> <<>>, temp |-> <<>>, ph |-> <<<<"n","o","t"," ","c","a","l","i","b","r","a","t","e","d">>>>],
    [text |-> <<"E","C",":","1","2","0","5",".","3"," ","T",":","2","5",".","2"," ","p","H",":","6",".","8","5">>, ec |-> <<<<"1","2","0","5",".","3">>>>, temp |-> <<<<"2","5",".","2">>>>, ph |-> <<<<"6",".","8","5">>>>],
    [text |-> <<"A","D","C",":"," ","5","1","2"," ","m","V",":"," ","4","5","0",".","3">>, ec |-> <<>>, temp |-> <<>>, ph |-> <<>>],
    [text |-> <<"C","A","L","I","B","R","A","T","I","O","N"," ","E","Q","U","A","T","I","O","N","S">>, ec |-> <<>>, temp |-> <<>>, ph |-> <<>>]
>>

ReaderKeys == {"ec", "temp", "ph"}

\* d[k] = v on a dict held as a function
DictPut(d, k, v) ==
    [x \in DOMAIN d \cup {k} |-> IF x = k THEN v ELSE d[x]]

\* One dict assignment guarded by "if m:"
PutIf(d, k, m) == IF m # <<>> THEN DictPut(d, k, m[1]) ELSE d

\* "DIAG" in data or "ADC:" in data or "mV:" in data
IsHealthLine(data) ==
    \/ Contains(data, <<"D","I","A","G">>)
    \/ Contains(data, <<"A","D","C",":">>)
    \/ Contains(data, <<"m","V",":">>)

\* What handle_data computes from the text of a line alone, for each line of
\* ReaderLines: the header test, the three searches and the health test.
Scanned ==
    [n \in DOMAIN ReaderLines |->
        [header |-> Strip(ReaderLines[n].text) = SENSOR_READINGS,
         ec     |-> ec_m(ReaderLines[n].text),
         temp   |-> temp_m(ReaderLines[n].text),
         ph     |-> ph_m(ReaderLines[n].text),
         health |-> IsHealthLine(ReaderLines[n].text)]]

\* Mutant: each line starts the dict afresh.
Collect_Fresh(d, m) ==
    PutIf(PutIf(PutIf(<<>>, "ec", m.ec), "temp", m.temp), "ph", m.ph)

\* The three "if m:" assignments, in source order; m holds the three matches.
Collect(d, m) ==
    PutIf(PutIf(PutIf(d, "ec", m.ec), "temp", m.temp), "ph", m.ph)

\* all(k in self._reading_buffer for k in ("ec", "temp", "ph"))
AllThree(d) == ReaderKeys \subseteq DOMAIN d

\* Mutant: a header keeps the fields of a block already being collected.
BufferAtHeader_Keep(rb) == IF rb = <<>> THEN << <<>> >> ELSE rb

\* "self._reading_buffer = {}" at a header
BufferAtHeader(rb) == << <<>> >>

\* Mutant: the reading is handed over as soon as EC and pH are there.
ReadyToParse_NoTemp(d) == {"ec", "ph"} \subseteq DOMAIN d

\* The test that ends a block
ReadyToParse(d) == AllThree(d)

\* str.upper() of one character
ToUpper(c) ==
    IF \E i \in 1..26 : LowerCase[i] = c
    THEN UpperCase[CHOOSE i \in 1..26 : LowerCase[i] = c]
    ELSE c

\* str.upper()
Upper(s) == [i \in 1..Len(s) |-> ToUpper(s[i])]

\* Mutant: the marker is looked for in the text as sent.
IsNotCalibrated_AsSent(str) == Contains(str, <<"N","O","T">>)

\* 'NOT' in ec_str.upper()
IsNotCalibrated(str) == Contains(Upper(str), <<"N","O","T">>)

\* buf.get(k, default)
DictGet(buf, k, default) == IF k \in DOMAIN buf THEN buf[k] ELSE default

\* The EC and the pH branch of parse_sensor_readings: v is the local (<<>>:
\* None, else <<number>>), err says that float() raised.
CalibratedValue(str) ==
    IF IsNotCalibrated(str) THEN [v |-> <<>>, err |-> FALSE]
    ELSE [v |-> ParseFloat(str), err |-> ParseFloat(str) = <<>>]

\* parse_sensor_readings(buf) up to the three setText calls: what the live
\* labels show (<<>> when the except clause ran before them), and whether it
\* ran.
parse_sensor_readings(buf) ==
    The({ IF ec.err \/ temp = <<>> \/ ph.err
          THEN [shown |-> <<>>, error |-> TRUE]
          ELSE [shown |-> <<[ec |-> ec.v, temp |-> temp, ph |-> ph.v]>>,
                error |-> FALSE]
          : ec \in {CalibratedValue(DictGet(buf, "ec", NOT_CALIBRATED))},
            temp \in {ParseFloat(DictGet(buf, "temp", <<"0", ".", "0">>))},
            ph \in {CalibratedValue(DictGet(buf, "ph", NOT_CALIBRATED))} })

InitReader ==
    /\ reading_buffer = <<>>
    /\ produced = <<>>
    /\ reading = <<>>
    /\ parseError = FALSE
    /\ healthCalled = FALSE
    /\ rlast = 0
    /\ sawHeader = FALSE
    /\ fedSince = <<>>
    /\ callsSince = 0
    /\ discardedKeys = {}
    /\ reader_is_connected = FALSE
    /\ rcall = "none"
    /\ cutSince = FALSE
    /\ prevSession = <<>>

\* s is the beginning of t
IsPrefix(s, t) == Len(s) <= Len(t) /\ s = SubSeq(t, 1, Len(s))

\* handle_data(data) of SensorReaderSegment1, for line n of ReaderLines.
\* prevSession records the block completed by the call before a header, and
\* is kept while the lines fed since that header repeat it.
handle_data(n) ==
    LET data == Scanned[n]
    IN  /\ rlast' = n
        /\ IF data.header
           THEN /\ reading_buffer' = BufferAtHeader(reading_buffer)
                /\ produced' = <<>>
                /\ reading' = <<>>
                /\ parseError' = FALSE
                /\ healthCalled' = FALSE
                /\ sawHeader' = TRUE
                /\ fedSince' = <<>>
                /\ callsSince' = 0
                /\ discardedKeys' =
                      IF reading_buffer = <<>> THEN {}
                      ELSE DOMAIN reading_buffer[1]
                /\ prevSession' =
                      IF produced # <<>>
                      THEN <<[fed |-> fedSince, out |-> produced[1],
                              shown |-> reading, error |-> parseError]>>
                      ELSE <<>>
           ELSE /\ Len(fedSince) < MaxBlockLines
                /\ fedSince' = Append(fedSince, n)
                /\ prevSession' =
                      IF /\ prevSession # <<>>
                         /\ IsPrefix(Append(fedSince, n), prevSession[1].fed)
                      THEN prevSession
                      ELSE <<>>
                /\ UNCHANGED <<sawHeader, discardedKeys>>
                /\ IF reading_buffer # <<>>
                   THEN LET buf == Collect(reading_buffer[1], data)
                        IN  IF ReadyToParse(buf)
                            THEN /\ reading_buffer' = <<>>
                                 /\ produced' = <<buf>>
                                 /\ reading' = parse_sensor_readings(buf).shown
                                 /\ parseError' = parse_sensor_readings(buf).error
                                 /\ callsSince' = callsSince + 1
                                 /\ healthCalled' = FALSE
                            ELSE /\ reading_buffer' = <<buf>>
                                 /\ produced' = <<>>
                                 /\ reading' = <<>>
                                 /\ parseError' = FALSE
                                 /\ UNCHANGED callsSince
                                 /\ healthCalled' = FALSE
                   ELSE /\ healthCalled' = data.health
                        /\ produced' = <<>>
                        /\ reading' = <<>>
                        /\ parseError' = FALSE
                        /\ UNCHANGED <<reading_buffer, callsSince>>

\* The worker of the window delivers a line.
reader_handle_data ==
    /\ variant = "SensorReader_V12"
    /\ reader_is_connected
    /\ \E n \in DOMAIN ReaderLines :
          /\ handle_data(n)
          /\ cutSince' = IF Scanned[n].header THEN FALSE ELSE cutSince
    /\ rcall' = "handle_data"
    /\ UNCHANGED reader_is_connected
    /\ UNCHANGED <<wvars, cvars, tvars, uvars, avars>>

\* disconnect() leaves self._reading_buffer alone
DecoderAfterDisconnect(rb) == rb

\* toggle_connection() -> connect(): a new worker is started; the decoder's
\* fields are not touched.
reader_connect ==
    /\ variant = "SensorReader_V12"
    /\ ~reader_is_connected
    /\ reader_is_connected' = TRUE
    /\ rcall' = "connect"
    /\ UNCHANGED <<reading_buffer, reading, parseError, produced,
                   healthCalled, rlast, sawHeader, fedSince, callsSince,
                   discardedKeys, cutSince, prevSession>>
    /\ UNCHANGED <<wvars, cvars, tvars, uvars, avars>>

\* toggle_connection() -> disconnect(): the worker is stopped and waited for.
reader_disconnect ==
    /\ variant = "SensorReader_V12"
    /\ reader_is_connected
    /\ reader_is_connected' = FALSE
    /\ reading_buffer' = DecoderAfterDisconnect(reading_buffer)
    /\ rcall' = "disconnect"
    /\ cutSince' = (cutSince \/ reading_buffer # <<>>)
    /\ UNCHANGED <<reading, parseError, produced, healthCalled, rlast,
                   sawHeader, fedSince, callsSince, discardedKeys,
                   prevSession>>
    /\ UNCHANGED <<wvars, cvars, tvars, uvars, avars>>

NextReader ==
    \/ reader_handle_data
    \/ reader_connect
    \/ reader_disconnect

(***************************************************************************)
(* SensorReaderSegment1: averaging, plot, statistics, export and log       *)
(***************************************************************************)

\* Largest value the averaging spin box is set to.
MaxAvg == 2

\* Most entries of collected_data that are followed.
MaxCollected == 2

\* SensorConfig: the validation range
temp_min == Dec(-10, 0)
temp_max == Dec(60, 0)
ec_min == Dec(0, 0)
ec_max == Dec(20000, 0)
ph_min == Dec(0, 0)
ph_max == Dec(14, 0)

\* Complete blocks handle_data hands to parse_sensor_readings: the dict, and
\* the values the device sent (<<>>: NOT CALIBRATED).
AvgReadings == <<
    [buf |-> [ec |-> <<"0",".","0">>, temp |-> <<"2","2",".","1">>, ph |-> <<"5",".","2","4">>],
     ec |-> <<Dec(0, 0)>>, temp |-> <<Dec(221, 1)>>, ph |-> <<Dec(524, 2)>>],
    [buf |-> [ec |-> <<"1","2","0","5",".","3">>, temp |-> <<"2","5",".","2">>, ph |-> <<"6",".","8","5">>],
     ec |-> <<Dec(12053, 1)>>, temp |-> <<Dec(252, 1)>>, ph |-> <<Dec(685, 2)>>],
    [buf |-> [ec |-> <<"N","O","T"," ","C","A","L","I","B","R","A","T","E","D">>, temp |-> <<"2","2",".","1">>, ph |-> <<"5",".","2","4">>],
     ec |-> <<>>, temp |-> <<Dec(221, 1)>>, ph |-> <<Dec(524, 2)>>],
    [buf |-> [ec |-> <<"0",".","0">>, temp |-> <<"2","2",".","1">>, ph |-> <<"n","o","t"," ","c","a","l","i","b","r","a","t","e","d">>],
     ec |-> <<Dec(0, 0)>>, temp |-> <<Dec(221, 1)>>, ph |-> <<>>],
    [buf |-> [ec |-> <<"2","0","0","0","0",".","5">>, temp |-> <<"2","2",".","1">>, ph |-> <<"5",".","2","4">>],
     ec |-> <<Dec(200005, 1)>>, temp |-> <<Dec(221, 1)>>, ph |-> <<Dec(524, 2)>>],
    [buf |-> [ec |-> <<"0",".","0">>, temp |-> <<"-","1","0",".","5">>, ph |-> <<"5",".","2","4">>],
     ec |-> <<Dec(0, 0)>>, temp |-> <<Dec(-105, 1)>>, ph |-> <<Dec(524, 2)>>],
    [buf |-> [ec |-> <<"0",".","0">>, temp |-> <<"2","2",".","1">>, ph |-> <<"1","4",".","0","1">>],
     ec |-> <<Dec(0, 0)>>, temp |-> <<Dec(221, 1)>>, ph |-> <<Dec(1401, 2)>>]
>>

InitAvg ==
    /\ avg_buffer = <<>>
    /\ avg_count = 1
    /\ avg_spin = 1
    /\ timer_active = FALSE
    /\ is_logging = FALSE
    /\ collected_data = <<>>
    /\ plot_data = <<>>
    /\ stats_history = <<>>
    /\ logged = <<>>
    /\ given = 0
    /\ alast = "none"

\* Mutant: the temperature is not tested.
validate_reading_NoTemp(ec, temp, ph) ==
    /\ ec_min <= ec /\ ec <= ec_max
    /\ ph_min <= ph /\ ph <= ph_max

\* validate_reading(ec, temp, ph)
validate_reading(ec, temp, ph) ==
    /\ ec_min <= ec /\ ec <= ec_max
    /\ temp_min <= temp /\ temp <= temp_max
    /\ ph_min <= ph /\ ph <= ph_max

\* Mutant: the window is full when it holds more than n readings.
WindowFull_Greater(buf_len, n) == buf_len > n

\* "if buf_len >= n:"
WindowFull(buf_len, n) == buf_len >= n

\* sum(r[k] for r in b) over the first i readings of b
RECURSIVE SumOf(_, _, _)
SumOf(b, k, i) == IF i = 0 THEN 0 ELSE b[i][k] + SumOf(b, k, i - 1)

\* sum(r[k] for r in b) / len(b), held as <<sum, len>>
MeanOf(b, k) == <<SumOf(b, k, Len(b)), Len(b)>>

\* The averaged data point of the readings b
AveragedPoint(b) == [ec |-> MeanOf(b, 1), temp |-> MeanOf(b, 2), ph |-> MeanOf(b, 3)]

\* parse_sensor_readings from "self._avg_buffer.append((ec, temp, ph))" on
AppendAndAverage(r) ==
    \E b \in {Append(avg_buffer, r)} :
        IF WindowFull(Len(b), avg_count)
        THEN /\ avg_buffer' = <<>>
             /\ plot_data' = Append(plot_data, AveragedPoint(b))
             /\ stats_history' = Append(stats_history, AveragedPoint(b))
             /\ collected_data' = Append(collected_data, AveragedPoint(b))
             /\ logged' = IF is_logging THEN Append(logged, AveragedPoint(b))
                          ELSE logged
        ELSE /\ avg_buffer' = b
             /\ UNCHANGED <<plot_data, stats_history, collected_data, logged>>

\* handle_data calls parse_sensor_readings(buf) with a complete block: the
\* whole method, from the dict on.
reader_parse_sensor_readings ==
    /\ variant = "SensorReader_V12"
    /\ Len(collected_data) < MaxCollected
    /\ alast' = "parse_sensor_readings"
    /\ \E r \in DOMAIN AvgReadings :
         /\ given' = r
         /\ \E res \in {parse_sensor_readings(AvgReadings[r].buf)} :
            /\ reading' = res.shown
            /\ parseError' = res.error
            /\ IF /\ ~res.error
                  /\ res.shown[1].ec # <<>>
                  /\ res.shown[1].ph # <<>>
                  /\ validate_reading(res.shown[1].ec[1], res.shown[1].temp[1],
                                      res.shown[1].ph[1])
               THEN AppendAndAverage(<<res.shown[1].ec[1], res.shown[1].temp[1],
                                       res.shown[1].ph[1]>>)
               ELSE UNCHANGED <<avg_buffer, plot_data, stats_history,
                                collected_data, logged>>
    /\ UNCHANGED <<avg_count, avg_spin, timer_active, is_logging>>
    /\ UNCHANGED <<reading_buffer, produced, healthCalled, rlast, sawHeader,
                   fedSince, callsSince, discardedKeys, reader_is_connected,
                   rcall, cutSince, prevSession>>
    /\ UNCHANGED <<wvars, cvars, tvars, uvars>>

\* avg_spin.valueChanged -> on_avg_changed(value)
on_avg_changed ==
    /\ variant = "SensorReader_V12"
    /\ \E value \in 1..MaxAvg :
          /\ value # avg_spin
          /\ avg_spin' = value
          /\ avg_count' = value
    /\ avg_buffer' = <<>>
    /\ alast' = "on_avg_changed"
    /\ UNCHANGED <<timer_active, is_logging, collected_data, plot_data,
                   stats_history, logged, given>>
    /\ UNCHANGED <<wvars, rvars, cvars, tvars, uvars>>

\* start_btn.clicked -> toggle_measurements()
toggle_measurements ==
    /\ variant = "SensorReader_V12"
    /\ IF timer_active
       THEN /\ timer_active' = FALSE
            /\ UNCHANGED <<avg_buffer, avg_count>>
       ELSE /\ avg_buffer' = <<>>
            /\ avg_count' = avg_spin
            /\ timer_active' = TRUE
    /\ alast' = "toggle_measurements"
    /\ UNCHANGED <<avg_spin, is_logging, collected_data, plot_data,
                   stats_history, logged, given>>
    /\ UNCHANGED <<wvars, rvars, cvars, tvars, uvars>>

\* log_btn.clicked -> toggle_logging(): stop_logging, or start_logging, which
\* may fail to open its file.
toggle_logging ==
    /\ variant = "SensorReader_V12"
    /\ IF is_logging
       THEN is_logging' = FALSE
       ELSE is_logging' \in BOOLEAN
    /\ alast' = "toggle_logging"
    /\ UNCHANGED <<avg_buffer, avg_count, avg_spin, timer_active,
                   collected_data, plot_data, stats_history, logged, given>>
    /\ UNCHANGED <<wvars, rvars, cvars, tvars, uvars>>

NextAvg ==
    \/ reader_parse_sensor_readings
    \/ on_avg_changed
    \/ toggle_measurements
    \/ toggle_logging

(***************************************************************************)
(* CalibrationPlotWidget.update_from_equations                             *)
(***************************************************************************)

\* The character class [\d.]
PtChars == Digits \cup {"."}

V_mV == <<"V","_","m","V">>

\* =\s*([-\d.]+)\s*\*\s*V_mV\s*\+\s*([-\d.]+) at position i: <<group 1,
\* group 2>> or <<>>.  Each greedy run is followed by a character outside its
\* class, so no shorter run can match.
EqAt(s, i) ==
    LET a == RunEnd(s, i + 1, Ws)
        b == RunEnd(s, a, NumChars)
        c == RunEnd(s, b, Ws)
        d == RunEnd(s, c + 1, Ws)
        e == RunEnd(s, d + Len(V_mV), Ws)
        f == RunEnd(s, e + 1, Ws)
        g == RunEnd(s, f, NumChars)
    IN  IF /\ LitAt(s, i, <<"=">>, FALSE)
           /\ b > a
           /\ LitAt(s, c, <<"*">>, FALSE)
           /\ LitAt(s, d, V_mV, FALSE)
           /\ LitAt(s, e, <<"+">>, FALSE)
           /\ g > f
        THEN <<SubSeq(s, a, b - 1), SubSeq(s, f, g - 1)>>
        ELSE <<>>

\* re.search(r'=\s*([-\d.]+)\s*\*\s*V_mV\s*\+\s*([-\d.]+)', line)
RECURSIVE eq_m(_, _)
eq_m(s, i) ==
    IF i > Len(s) THEN <<>>
    ELSE The({ IF r # <<>> THEN r ELSE eq_m(s, i + 1) : r \in {EqAt(s, i)} })

\* P\d+: at position i: the position after the colon, or 0.
PointTagAt(s, i) ==
    LET a == RunEnd(s, i + 1, Digits)
    IN  IF LitAt(s, i, <<"P">>, FALSE) /\ a > i + 1 /\ LitAt(s, a, <<":">>, FALSE)
        THEN a + 1 ELSE 0

\* re.match(r'P\d+:', line)
IsPointLine(s) == PointTagAt(s, 1) # 0

\* P\d+:\s*([\d.]+)mV\s*->\s*([\d.]+) at position i
PointAt(s, i) ==
    LET t == PointTagAt(s, i)
        a == RunEnd(s, t, Ws)
        b == RunEnd(s, a, PtChars)
        c == RunEnd(s, b + 2, Ws)
        d == RunEnd(s, c + 2, Ws)
        e == RunEnd(s, d, PtChars)
    IN  IF /\ t # 0
           /\ b > a
           /\ LitAt(s, b, <<"m","V">>, FALSE)
           /\ LitAt(s, c, <<"-",">">>, FALSE)
           /\ e > d
        THEN <<SubSeq(s, a, b - 1), SubSeq(s, d, e - 1)>>
        ELSE <<>>

\* re.search(r'P\d+:\s*([\d.]+)mV\s*->\s*([\d.]+)', line)
RECURSIVE point_m(_, _)
point_m(s, i) ==
    IF i > Len(s) THEN <<>>
    ELSE The({ IF r # <<>> THEN r ELSE point_m(s, i + 1) : r \in {PointAt(s, i)} })

\* R2=([\d.]+) at position i
R2At(s, i) ==
    LET a == i + 3
        b == RunEnd(s, a, PtChars)
    IN  IF LitAt(s, i, <<"R","2","=">>, FALSE) /\ b > a
        THEN <<SubSeq(s, a, b - 1)>> ELSE <<>>

\* re.search(r'R2=([\d.]+)', line)
RECURSIVE r2_m(_, _)
r2_m(s, i) ==
    IF i > Len(s) THEN <<>>
    ELSE The({ IF r # <<>> THEN r ELSE r2_m(s, i + 1) : r \in {R2At(s, i)} })

HDR_ECL == <<"-","-","-"," ","E","C"," ","L","O","W"," ","R","A","N","G","E"," ","-","-","-">>
HDR_ECH == <<"-","-","-"," ","E","C"," ","H","I","G","H"," ","R","A","N","G","E"," ","-","-","-">>
HDR_PH == <<"-","-","-"," ","p","H"," ","-","-","-">>
HDR_T == <<"-","-","-"," ","T","E","M","P","E","R","A","T","U","R","E"," ","-","-","-">>

\* section_map: <<channel>> for a section header, <<>> for any other line
section_map(line) ==
    IF line = HDR_ECL THEN <<"ECL">>
    ELSE IF line = HDR_ECH THEN <<"ECH">>
    ELSE IF line = HDR_PH THEN <<"PH">>
    ELSE IF line = HDR_T THEN <<"T">>
    ELSE <<>>

\* The lines from the i-th on, joined by "\n".
RECURSIVE JoinFrom(_, _)
JoinFrom(lines, i) ==
    IF i > Len(lines) THEN <<>>
    ELSE IF i = Len(lines) THEN lines[i]
    ELSE lines[i] \o <<"\n">> \o JoinFrom(lines, i + 1)

\* '\n'.join(lines)
Join(lines) == JoinFrom(lines, 1)

\* Position of the first "\n" of text from j on (Len(text) + 1: none).
RECURSIVE LineEnd(_, _)
LineEnd(text, j) ==
    IF j <= Len(text) /\ text[j] # "\n" THEN LineEnd(text, j + 1) ELSE j

\* The pieces of text from position i on, cut at each "\n".
RECURSIVE SplitFrom(_, _)
SplitFrom(text, i) ==
    The({ IF e > Len(text) THEN <<SubSeq(text, i, Len(text))>>
          ELSE <<SubSeq(text, i, e - 1)>> \o SplitFrom(text, e + 1)
          : e \in {LineEnd(text, i)} })

\* text.split('\n')
Split(text) == SplitFrom(text, 1)

\* The locals of update_from_equations before its loop; data is
\* self.sensor_data, err says that an exception has ended the try block.
ParseStart(sd) ==
    [cur |-> <<>>, points |-> <<>>, C |-> 0, D |-> 0, R2 |-> 0,
     data |-> sd, err |-> FALSE]

\* Mutant: a channel is stored whether or not it has points.
Flush_Always(acc) ==
    IF acc.cur # <<>>
    THEN DictPut(acc.data, acc.cur[1],
                 [points |-> acc.points, C |-> acc.C, D |-> acc.D,
                  R2 |-> acc.R2])
    ELSE acc.data

\* Mutant: the points of a channel are added to those it already has.
Flush_Accumulate(acc) ==
    IF acc.cur # <<>> /\ acc.points # <<>>
    THEN DictPut(acc.data, acc.cur[1],
                 [points |-> (IF acc.cur[1] \in DOMAIN acc.data
                              THEN acc.data[acc.cur[1]].points ELSE <<>>)
                             \o acc.points,
                  C |-> acc.C, D |-> acc.D, R2 |-> acc.R2])
    ELSE acc.data

\* "if current_sensor and points: self.sensor_data[current_sensor] = {...}"
Flush(acc) ==
    IF acc.cur # <<>> /\ acc.points # <<>>
    THEN DictPut(acc.data, acc.cur[1],
                 [points |-> acc.points, C |-> acc.C, D |-> acc.D,
                  R2 |-> acc.R2])
    ELSE acc.data

\* The "Equation:" branch
OnEquation(acc, line) ==
    The({ IF m = <<>> THEN acc
          ELSE The({ IF c = <<>> THEN [acc EXCEPT !.err = TRUE]
                     ELSE IF d = <<>>
                          THEN [acc EXCEPT !.C = c[1], !.err = TRUE]
                     ELSE [acc EXCEPT !.C = c[1], !.D = d[1]]
                     : c \in {ParseFloat(m[1])}, d \in {ParseFloat(m[2])} })
          : m \in {eq_m(line, 1)} })

\* The "P<n>:" branch
OnPoint(acc, line) ==
    The({ IF m = <<>> THEN acc
          ELSE The({ IF v = <<>> \/ r = <<>> THEN [acc EXCEPT !.err = TRUE]
                     ELSE [acc EXCEPT !.points = Append(@, <<v[1], r[1]>>)]
                     : v \in {ParseFloat(m[1])}, r \in {ParseFloat(m[2])} })
          : m \in {point_m(line, 1)} })

\* The "Quality:" branch
OnQuality(acc, line) ==
    The({ IF m = <<>> THEN acc
          ELSE The({ IF r = <<>> THEN [acc EXCEPT !.err = TRUE]
                     ELSE [acc EXCEPT !.R2 = r[1]]
                     : r \in {ParseFloat(m[1])} })
          : m \in {r2_m(line, 1)} })

\* One iteration of "for raw_line in full_response.split('\n')"
ParseLine(acc, raw_line) ==
    The({ IF acc.err THEN acc
          ELSE IF section_map(line) # <<>>
               THEN [cur |-> section_map(line), points |-> <<>>, C |-> 0,
                     D |-> 0, R2 |-> 0, data |-> Flush(acc), err |-> FALSE]
          ELSE IF acc.cur = <<>> THEN acc
          ELSE IF StartsWith(line, <<"E","q","u","a","t","i","o","n",":">>) THEN OnEquation(acc, line)
          ELSE IF IsPointLine(line) THEN OnPoint(acc, line)
          ELSE IF StartsWith(line, <<"Q","u","a","l","i","t","y",":">>) THEN OnQuality(acc, line)
          ELSE acc
          : line \in {Strip(raw_line)} })

\* The loop from the i-th line on.
RECURSIVE ParseLines(_, _, _)
ParseLines(acc, lines, i) ==
    IF i > Len(lines) THEN acc
    ELSE The({ ParseLines(a, lines, i + 1)
               : a \in {ParseLine(acc, lines[i])} })

\* update_from_equations(full_response) on sensor_data sd: the new
\* sensor_data, and whether the except clause ran ("Error parsing EQUATIONS").
update_from_equations(sd, full_response) ==
    The({ IF acc.err THEN [data |-> acc.data, error |-> TRUE]
          ELSE [data |-> Flush(acc), error |-> FALSE]
          : acc \in { The({ ParseLines(ParseStart(sd), lines, 1)
                            : lines \in {Split(full_response)} }) } })

(***************************************************************************)
(* QualityWidget.update_from_data                                          *)
(***************************************************************************)

\* The four labels before any update ("EC Low: --", ...).
NoMetrics == [ec_low |-> <<>>, ec_high |-> <<>>, ph |-> <<>>, temp |-> <<>>]

\* Where the group of R2?[²=]?\s*[=:]?\s*([\d.]+) starts for a match that
\* begins at position i, for one choice of the three optional items (take
\* them or not); 0 when the choice cannot be made.  Whitespace given back by
\* the first \s* is taken by the second, so both runs are the longest.
LooseStart(s, i, two, sym, sep) ==
    LET a == IF two THEN i + 2 ELSE i + 1
        b == IF sym THEN a + 1 ELSE a
        c == RunEnd(s, b, Ws)
        d == IF sep THEN c + 1 ELSE c
    IN  IF /\ LitAt(s, i, <<"R">>, FALSE)
           /\ two => LitAt(s, i + 1, <<"2">>, FALSE)
           /\ sym => a <= Len(s) /\ s[a] \in {"²", "="}
           /\ sep => c <= Len(s) /\ s[c] \in {"=", ":"}
        THEN RunEnd(s, d, Ws)
        ELSE 0

\* The choices for the optional items, in the order the matcher tries them:
\* each item is taken first and given up last.
LooseChoices == <<
    <<TRUE, TRUE, TRUE>>, <<TRUE, TRUE, FALSE>>, <<TRUE, FALSE, TRUE>>,
    <<TRUE, FALSE, FALSE>>, <<FALSE, TRUE, TRUE>>, <<FALSE, TRUE, FALSE>>,
    <<FALSE, FALSE, TRUE>>, <<FALSE, FALSE, FALSE>> >>

\* The match that begins at position i, the n-th choice tried first:
\* <<group 1>> or <<>>.
RECURSIVE LooseAt(_, _, _)
LooseAt(s, i, n) ==
    IF n > Len(LooseChoices) THEN <<>>
    ELSE The({ IF p # 0 /\ RunEnd(s, p, PtChars) > p
               THEN <<SubSeq(s, p, RunEnd(s, p, PtChars) - 1)>>
               ELSE LooseAt(s, i, n + 1)
               : p \in {LooseStart(s, i, LooseChoices[n][1],
                                   LooseChoices[n][2], LooseChoices[n][3])} })

\* re.search(r'R2?[²=]?\s*[=:]?\s*([\d.]+)', data_string)
RECURSIVE r2_match(_, _)
r2_match(s, i) ==
    IF i > Len(s) THEN <<>>
    ELSE The({ IF r # <<>> THEN r ELSE r2_match(s, i + 1)
               : r \in {LooseAt(s, i, 1)} })

\* One "if <markers>: r2_match ...; label.setText(...)" block: the label's
\* new R2.  float() of a group it cannot convert raises, which ends
\* update_from_data; no caller catches it.
LabelUpdate(old, marked, m) ==
    IF marked /\ m # <<>> /\ ParseFloat(m[1]) # <<>> THEN ParseFloat(m[1])
    ELSE old

\* update_from_data(data_string) on the labels lb
quality_update_from_data(lb, data_string) ==
    The({ [ec_low  |-> LabelUpdate(lb.ec_low,
                          \/ Contains(data_string, <<"E","C","_","L","O","W",":">>)
                          \/ Contains(data_string, <<"E","C"," ","L","o","w">>), m),
           ec_high |-> LabelUpdate(lb.ec_high,
                          \/ Contains(data_string, <<"E","C","_","H","I","G","H",":">>)
                          \/ Contains(data_string, <<"E","C"," ","H","i","g","h">>), m),
           ph      |-> LabelUpdate(lb.ph,
                          /\ Contains(data_string, <<"p","H",":">>)
                          /\ Contains(data_string, <<"R">>), m),
           temp    |-> LabelUpdate(lb.temp,
                          \/ Contains(data_string, <<"T","E","M","P",":">>)
                          \/ Contains(data_string, <<"T","e","m","p","e","r","a","t","u","r","e">>), m)]
          : m \in {r2_match(data_string, 1)} })

(***************************************************************************)
(* CalibrationWindow.parse_status_compact                                  *)
(***************************************************************************)

\* Most segments of a STATUS_COMPACT line.
MaxSegments == 3

\* Position of the first character sep of text from j on (Len(text) + 1:
\* none).
RECURSIVE SepAt(_, _, _)
SepAt(text, sep, j) ==
    IF j <= Len(text) /\ text[j] # sep THEN SepAt(text, sep, j + 1) ELSE j

\* The pieces of text from position i on, cut at each character sep.
RECURSIVE SplitBy(_, _, _)
SplitBy(text, sep, i) ==
    The({ IF e > Len(text) THEN <<SubSeq(text, i, Len(text))>>
          ELSE <<SubSeq(text, i, e - 1)>> \o SplitBy(text, sep, e + 1)
          : e \in {SepAt(text, sep, i)} })

\* "if len(values) >= 3"
EnoughValues(values) == Len(values) >= 3

\* Mutant: every first value but "0" counts as calibrated.
IsCalibrated_NotZero(is_cal) == is_cal # <<"0">>

\* is_cal == "1"
IsCalibrated(is_cal) == is_cal = <<"1">>

\* The body of "for sensor_data in sensors": what the segment adds to the log.
StatusOfSegment(segment) ==
    The({ IF Len(parts) >= 2
          THEN The({ IF EnoughValues(values)
                     THEN <<[sensor |-> parts[1],
                             calibrated |-> IsCalibrated(values[1]),
                             points |-> values[2], r2 |-> values[3]]>>
                     ELSE <<>>
                     : values \in {SplitBy(parts[2], ",", 1)} })
          ELSE <<>>
          : parts \in {SplitBy(segment, ":", 1)} })

\* The loop over sensors from the i-th segment on.
RECURSIVE StatusOfSegments(_, _)
StatusOfSegments(sensors, i) ==
    IF i > Len(sensors) THEN <<>>
    ELSE StatusOfSegment(sensors[i]) \o StatusOfSegments(sensors, i + 1)

\* parse_status_compact(data): the channels it logs, in order.  data.split(':',
\* 1)[1] exists because handle_data passes only lines that start with
\* "STATUS_COMPACT:"; nothing else in the try block can raise.
parse_status_compact(data) ==
    The({ StatusOfSegments(sensors, 1)
          : sensors \in {SplitBy(data, "|", SepAt(data, ":", 1) + 1)} })

\* Segments a device puts in a STATUS_COMPACT line, whole or damaged: the
\* text, and the record the segment stands for (<<>>: none).
StatusSegments == <<
    [text |-> <<"E","C","L",":","1",",","4",",","0",".","9","9","8","7">>,
     rec |-> <<[sensor |-> <<"E","C","L">>, calibrated |-> TRUE, points |-> <<"4">>, r2 |-> <<"0",".","9","9","8","7">>]>>],
    [text |-> <<"E","C","H",":","0",",","0",",","0",".","0","0","0","0">>,
     rec |-> <<[sensor |-> <<"E","C","H">>, calibrated |-> FALSE, points |-> <<"0">>, r2 |-> <<"0",".","0","0","0","0">>]>>],
    [text |-> <<"P","H",":","2",",","3",",","0",".","9","9","9","5",",","7",":","x">>,
     rec |-> <<[sensor |-> <<"P","H">>, calibrated |-> FALSE, points |-> <<"3">>, r2 |-> <<"0",".","9","9","9","5">>]>>],
    [text |-> <<"T",":","1",",","3">>, rec |-> <<>>],
    [text |-> <<"P","H">>, rec |-> <<>>],
    [text |-> <<>>, rec |-> <<>>]
>>

\* The text of the segments segs (numbers of StatusSegments) from the i-th
\* on, joined by "|".
RECURSIVE SegmentsText(_, _)
SegmentsText(segs, i) ==
    IF i > Len(segs) THEN <<>>
    ELSE IF i = Len(segs) THEN StatusSegments[segs[i]].text
    ELSE StatusSegments[segs[i]].text \o <<"|">> \o SegmentsText(segs, i + 1)

\* The STATUS_COMPACT line with the segments segs.
StatusLine(segs) == <<"S","T","A","T","U","S","_","C","O","M","P","A","C","T",":">> \o SegmentsText(segs, 1)

\* The lists of 1..MaxSegments segment numbers.
SegmentLists ==
    UNION {[1..n -> DOMAIN StatusSegments] : n \in 1..MaxSegments}

(***************************************************************************)
(* CalibrationWindow.handle_data                                           *)
(***************************************************************************)

\* EQUATIONS responses the device sends in one run.
MaxBlocks == 2

\* Most P<n>: lines of one section.
MaxPoints == 2

CALIBRATION_EQUATIONS == <<"C","A","L","I","B","R","A","T","I","O","N"," ","E","Q","U","A","T","I","O","N","S">>

\* The four sections of a response in the order the device sends them: the
\* lines, and the values the device printed in them.  pts are the point lines
\* the device has for the channel; it sends a prefix of them.
CalSections == <<
    [ch |-> "ECL", hdr |-> <<"-","-","-"," ","E","C"," ","L","O","W"," ","R","A","N","G","E"," ","-","-","-">>,
     eq |-> <<"E","q","u","a","t","i","o","n",":"," ","E","C"," ","="," ","1",".","5"," ","*"," ","V","_","m","V"," ","+"," ","-","2",".","2","5">>, C |-> Dec(15, 1), D |-> Dec(-225, 2),
     q |-> <<"Q","u","a","l","i","t","y",":"," ","R","2","=","0",".","9","9","8","7"," ","R","M","S","E","=","2",".","3","0"," ","u","S","/","c","m">>, R2 |-> Dec(9987, 4),
     pts |-> << [text |-> <<"P","1",":"," ","4","5","0",".","3","m","V"," ","-",">"," ","6","5",".","0","u","S","/","c","m">>, v |-> Dec(4503, 1), r |-> Dec(650, 1)],
                [text |-> <<" "," ","P","2",":"," ","6","7","3",".","8","m","V"," ","-",">"," ","2","0","0",".","0","u","S","/","c","m">>, v |-> Dec(6738, 1), r |-> Dec(2000, 1)],
                [text |-> <<"P","3",":"," ","7","0","0","m","V"," ","-",">"," ","2","5","0","u","S","/","c","m">>, v |-> Dec(700, 0), r |-> Dec(250, 0)] >>],
    [ch |-> "ECH", hdr |-> <<"-","-","-"," ","E","C"," ","H","I","G","H"," ","R","A","N","G","E"," ","-","-","-">>,
     eq |-> <<"E","q","u","a","t","i","o","n",":"," ","E","C"," ","="," ","1","2"," ","*"," ","V","_","m","V"," ","+"," ","3","0",".","5">>, C |-> Dec(12, 0), D |-> Dec(305, 1),
     q |-> <<"Q","u","a","l","i","t","y",":"," ","R","2","=","0",".","9","5"," ","R","M","S","E","=","1","1",".","0"," ","u","S","/","c","m">>, R2 |-> Dec(95, 2),
     pts |-> << [text |-> <<"P","1",":"," ","8","0","0",".","0","m","V"," ","-",">"," ","1","4","1","3",".","0","u","S","/","c","m">>, v |-> Dec(8000, 1), r |-> Dec(14130, 1)] >>],
    [ch |-> "PH", hdr |-> <<"-","-","-"," ","p","H"," ","-","-","-">>,
     eq |-> <<"E","q","u","a","t","i","o","n",":"," ","p","H"," ","="," ","-","0",".","0","1","7"," ","*"," ","V","_","m","V"," ","+"," ","7",".","5">>, C |-> Dec(-17, 3), D |-> Dec(75, 1),
     q |-> <<"Q","u","a","l","i","t","y",":"," ","R","2","=","0",".","9","9","9","5"," ","R","M","S","E","=","0",".","0","2">>, R2 |-> Dec(9995, 4),
     pts |-> << [text |-> <<"P","1",":"," ","1","7","7",".","0","m","V"," ","-",">"," ","4",".","0">>, v |-> Dec(1770, 1), r |-> Dec(40, 1)] >>],
    [ch |-> "T", hdr |-> <<"-","-","-"," ","T","E","M","P","E","R","A","T","U","R","E"," ","-","-","-">>,
     eq |-> <<"E","q","u","a","t","i","o","n",":"," ","T"," ","="," ","0",".","1"," ","*"," ","V","_","m","V"," ","+"," ","-","5","0",".","0">>, C |-> Dec(1, 1), D |-> Dec(-500, 1),
     q |-> <<"Q","u","a","l","i","t","y",":"," ","R","2","=","1",".","0"," ","R","M","S","E","=","0",".","1"," ","C">>, R2 |-> Dec(10, 1),
     pts |-> << [text |-> <<"P","1",":"," ","5","0","0",".","0","m","V"," ","-",">"," ","0",".","0","C">>, v |-> Dec(5000, 1), r |-> Dec(0, 1)],
                [text |-> <<"P","2",":"," ","7","5","0",".","0","m","V"," ","-",">"," ","2","5",".","0","C">>, v |-> Dec(7500, 1), r |-> Dec(250, 1)],
                [text |-> <<"P","3",":"," ","9","0","0","m","V"," ","-",">"," ","4","0","C">>, v |-> Dec(900, 0), r |-> Dec(40, 0)] >>]
>>

CALIBRATION_POINTS == <<"C","a","l","i","b","r","a","t","i","o","n"," ","P","o","i","n","t","s",":">>

\* Lines that belong to no EQUATIONS response.
OtherLines == {
    <<"S","T","A","T","U","S","_","C","O","M","P","A","C","T",":","E","C","L",":","1",",","4",",","0",".","9","9","8","7","|","E","C","H",":","0",",","0",",","0",".","0","0","0","0">>,
    <<"E","C",":","1","2","0","5",".","3"," ","T",":","2","5",".","2"," ","p","H",":","6",".","8","5">>,
    <<"E","C","_","L","O","W",":"," ","R","2","=","0",".","9","9","8","7">>,
    <<"p","H",":"," ","7",".","0","2"," ","R","2","=","0",".","9","9","9","1">>,
    <<"P","H",":"," ","7",".","0","2"," ","R","2","=","0",".","9","9","9","1">>,
    <<"P","9",":"," ","1",".","2",".","3","m","V"," ","-",">"," ","4",".","0">>,
    <<"O","K">>,
    <<>>,
    <<" ", " ">>,
    <<"C","A","L","I","B","R","A","T","I","O","N"," ","E","Q","U","A","T","I","O","N","S">> }

InitCal ==
    /\ in_equations = FALSE
    /\ equations_buffer = <<>>
    /\ sensor_data = <<>>
    /\ plotError = FALSE
    /\ updates = 0
    /\ dispatched = "none"
    /\ metrics = NoMetrics
    /\ statusLog = <<>>
    /\ statusSegs = <<>>
    /\ devPhase = "idle"
    /\ devSec = 0
    /\ devPts = 0
    /\ intended = <<>>
    /\ blocksDone = 0
    /\ blockClean = TRUE
    /\ otherFed = FALSE
    /\ otherLine = <<>>
    /\ clast = "none"
    /\ prevBlock = <<>>
    /\ received = <<>>

\* The handler handle_data picks for a line outside a block
Dispatch(data) ==
    IF StartsWith(data, <<"S","T","A","T","U","S","_","C","O","M","P","A","C","T",":">>) THEN "parse_status_compact"
    ELSE IF Contains(data, <<"E","C",":">>)
            /\ (Contains(data, <<"T",":">>) \/ Contains(data, <<"T","e","m","p",":">>))
         THEN "parse_sensor_reading"
    ELSE IF \/ Contains(data, <<"E","C","_","L","O","W",":">>)
            \/ Contains(data, <<"E","C","_","H","I","G","H",":">>)
            \/ Contains(data, <<"P","H",":">>)
            \/ Contains(data, <<"T","E","M","P",":">>)
         THEN "quality_widget.update_from_data"
    ELSE "none"

\* Mutant: any Quality: line ends the block.
BlockEnds_AnyQuality(joined, data) ==
    \/ StartsWith(Strip(data), <<"Q","u","a","l","i","t","y",":">>)
    \/ Strip(data) = <<>> /\ Contains(joined, <<"-","-","-">>)

\* Mutant: only the Quality: line of the Temperature section ends a block.
BlockEnds_NoBlank(joined, data) ==
    /\ Contains(joined, HDR_T)
    /\ StartsWith(Strip(data), <<"Q","u","a","l","i","t","y",":">>)

\* The two tests that end an EQUATIONS block
BlockEnds(joined, data) ==
    \/ /\ Contains(joined, HDR_T)
       /\ StartsWith(Strip(data), <<"Q","u","a","l","i","t","y",":">>)
    \/ /\ Strip(data) = <<>>
       /\ Contains(joined, <<"-","-","-">>)

\* Mutant: the header is appended to the lines collected so far.
BufferAtEquationsHeader_Append(buf, data) == Append(buf, data)

\* "self._equations_buffer = [data]"
BufferAtEquationsHeader(buf, data) == <<data>>

\* Mutant: the lines of a finished block stay in the buffer.
BufferAfterFlush_Keep(buf) == buf

\* "self._equations_buffer = []" after update_from_equations
BufferAfterFlush(buf) == <<>>

\* handle_data(data) of CalibrationWindow: the decoder's fields
\* (_in_equations, _equations_buffer), plot_widget.sensor_data, and what the
\* call invoked.
cal_handle_data(data) ==
    IF Strip(data) = CALIBRATION_EQUATIONS
    THEN /\ in_equations' = TRUE
         /\ equations_buffer' = BufferAtEquationsHeader(equations_buffer, data)
         /\ updates' = 0
         /\ dispatched' = "none"
         /\ statusLog' = <<>>
         /\ UNCHANGED <<sensor_data, plotError, metrics>>
    ELSE IF in_equations
    THEN \E joined \in {Join(Append(equations_buffer, data))} :
             IF BlockEnds(joined, data)
             THEN \E res \in {update_from_equations(sensor_data, joined)} :
                  /\ in_equations' = FALSE
                  /\ sensor_data' = res.data
                  /\ plotError' = res.error
                  /\ equations_buffer' =
                        BufferAfterFlush(Append(equations_buffer, data))
                  /\ updates' = 1
                  /\ dispatched' = "none"
                  /\ statusLog' = <<>>
                  /\ UNCHANGED metrics
             ELSE /\ equations_buffer' = Append(equations_buffer, data)
                  /\ updates' = 0
                  /\ dispatched' = "none"
                  /\ statusLog' = <<>>
                  /\ UNCHANGED <<in_equations, sensor_data, plotError,
                                 metrics>>
    ELSE /\ dispatched' = Dispatch(data)
         /\ metrics' = IF Dispatch(data) = "quality_widget.update_from_data"
                       THEN quality_update_from_data(metrics, data)
                       ELSE metrics
         /\ statusLog' = IF Dispatch(data) = "parse_status_compact"
                         THEN parse_status_compact(data)
                         ELSE <<>>
         /\ updates' = 0
         /\ UNCHANGED <<in_equations, equations_buffer, sensor_data,
                        plotError>>

\* A line of the device reaches the window: handed to handle_data as it is,
\* or, when the path through the worker is followed, sent with its
\* terminator, read by run() and handed to handle_data if run() emits it.
Receive(text) ==
    IF tracing
    THEN \E sigs \in {ForwardLine(text \o <<"\r", "\n">>)} :
            IF sigs = <<>>
            THEN /\ received' = <<>>
                 /\ updates' = 0
                 /\ dispatched' = "none"
                 /\ statusLog' = <<>>
                 /\ UNCHANGED <<in_equations, equations_buffer, sensor_data,
                                plotError, metrics>>
            ELSE /\ received' = <<sigs[1].line>>
                 /\ cal_handle_data(sigs[1].line)
    ELSE /\ received' = <<text>>
         /\ cal_handle_data(text)

\* ---- the device ----

\* The device sends the header of a response.  prevBlock records the
\* response completed before it: what the device reported in it, whether a
\* foreign line came in between its lines, and what update_from_equations left.
cal_feed_header ==
    /\ variant = "Calibrator_V13"
    /\ devPhase = "idle"
    /\ blocksDone < MaxBlocks
    /\ Receive(CALIBRATION_EQUATIONS)
    /\ devPhase' = "header"
    /\ devSec' = 0
    /\ devPts' = 0
    /\ intended' = <<>>
    /\ blockClean' = TRUE
    /\ clast' = "header"
    /\ UNCHANGED <<blocksDone, otherFed>>
    /\ otherLine' = <<>>
    /\ statusSegs' = <<>>
    /\ prevBlock' =
          IF blocksDone > 0
          THEN <<[sent |-> intended, clean |-> blockClean,
                  data |-> sensor_data, error |-> plotError]>>
          ELSE <<>>
    /\ UNCHANGED <<wvars, rvars, tvars, uvars, avars>>

\* The device sends the next section header.
cal_feed_section ==
    /\ variant = "Calibrator_V13"
    /\ devPhase \in {"header", "quality"}
    /\ devSec < Len(CalSections)
    /\ Receive(CalSections[devSec + 1].hdr)
    /\ devSec' = devSec + 1
    /\ devPhase' = "section"
    /\ devPts' = 0
    /\ clast' = "section"
    /\ UNCHANGED <<intended, blocksDone, blockClean, otherFed>>
    /\ otherLine' = <<>>
    /\ statusSegs' = <<>>
    /\ UNCHANGED prevBlock
    /\ UNCHANGED <<wvars, rvars, tvars, uvars, avars>>

\* The device sends the section's Equation: line.
cal_feed_equation ==
    /\ variant = "Calibrator_V13"
    /\ devPhase = "section"
    /\ Receive(CalSections[devSec].eq)
    /\ devPhase' = "equation"
    /\ clast' = "equation"
    /\ UNCHANGED <<devSec, devPts, intended, blocksDone, blockClean, otherFed>>
    /\ otherLine' = <<>>
    /\ statusSegs' = <<>>
    /\ UNCHANGED prevBlock
    /\ UNCHANGED <<wvars, rvars, tvars, uvars, avars>>

\* The device sends "Calibration Points:".
cal_feed_points_title ==
    /\ variant = "Calibrator_V13"
    /\ devPhase = "equation"
    /\ Receive(CALIBRATION_POINTS)
    /\ devPhase' = "points"
    /\ clast' = "points_title"
    /\ UNCHANGED <<devSec, devPts, intended, blocksDone, blockClean, otherFed>>
    /\ otherLine' = <<>>
    /\ statusSegs' = <<>>
    /\ UNCHANGED prevBlock
    /\ UNCHANGED <<wvars, rvars, tvars, uvars, avars>>

\* The device sends the section's next P<n>: line.
cal_feed_point ==
    /\ variant = "Calibrator_V13"
    /\ devPhase = "points"
    /\ devPts < MaxPoints
    /\ devPts < Len(CalSections[devSec].pts)
    /\ Receive(CalSections[devSec].pts[devPts + 1].text)
    /\ devPts' = devPts + 1
    /\ clast' = "point"
    /\ UNCHANGED <<devPhase, devSec, intended, blocksDone, blockClean, otherFed>>
    /\ otherLine' = <<>>
    /\ statusSegs' = <<>>
    /\ UNCHANGED prevBlock
    /\ UNCHANGED <<wvars, rvars, tvars, uvars, avars>>

\* What the device reported for the section it is sending.
Reported(sec, n) ==
    [points |-> [i \in 1..n |-> <<CalSections[sec].pts[i].v,
                                  CalSections[sec].pts[i].r>>],
     C |-> CalSections[sec].C, D |-> CalSections[sec].D,
     R2 |-> CalSections[sec].R2]

\* The device sends the section's Quality: line; the one of the last section
\* ends the response.
cal_feed_quality ==
    /\ variant = "Calibrator_V13"
    /\ devPhase = "points"
    /\ Receive(CalSections[devSec].q)
    /\ intended' = IF devPts >= 1
                   THEN DictPut(intended, CalSections[devSec].ch,
                                Reported(devSec, devPts))
                   ELSE intended
    /\ devPhase' = IF devSec = Len(CalSections) THEN "idle" ELSE "quality"
    /\ blocksDone' = IF devSec = Len(CalSections) THEN blocksDone + 1
                     ELSE blocksDone
    /\ clast' = IF devSec = Len(CalSections) THEN "last_quality" ELSE "quality"
    /\ UNCHANGED <<devSec, devPts, blockClean, otherFed>>
    /\ otherLine' = <<>>
    /\ statusSegs' = <<>>
    /\ UNCHANGED prevBlock
    /\ UNCHANGED <<wvars, rvars, tvars, uvars, avars>>

\* A line that is not the next line of a response arrives: one in a run,
\* before the first response is complete.
cal_feed_other ==
    /\ variant = "Calibrator_V13"
    /\ ~otherFed
    /\ blocksDone = 0
    /\ \E data \in OtherLines : Receive(data) /\ otherLine' = <<data>>
    /\ statusSegs' = <<>>
    /\ otherFed' = TRUE
    /\ blockClean' = IF devPhase = "idle" THEN blockClean ELSE FALSE
    /\ clast' = "other"
    /\ UNCHANGED <<devPhase, devSec, devPts, intended, blocksDone>>
    /\ UNCHANGED prevBlock
    /\ UNCHANGED <<wvars, rvars, tvars, uvars, avars>>

\* A STATUS_COMPACT line arrives while the device sends no response.
cal_feed_status ==
    /\ variant = "Calibrator_V13"
    /\ ~otherFed
    /\ blocksDone = 0
    /\ devPhase = "idle"
    /\ \E segs \in SegmentLists :
          /\ Receive(StatusLine(segs))
          /\ statusSegs' = segs
          /\ otherLine' = <<StatusLine(segs)>>
    /\ otherFed' = TRUE
    /\ clast' = "status"
    /\ UNCHANGED <<devPhase, devSec, devPts, intended, blocksDone, blockClean>>
    /\ UNCHANGED prevBlock
    /\ UNCHANGED <<wvars, rvars, tvars, uvars, avars>>

NextCal ==
    \/ cal_feed_header
    \/ cal_feed_section
    \/ cal_feed_equation
    \/ cal_feed_points_title
    \/ cal_feed_point
    \/ cal_feed_quality
    \/ cal_feed_other
    \/ cal_feed_status

\* The event loop of the window's thread runs the slot of the oldest
\* dataReceived emission: handle_data(line), from its first statement to its
\* return.
deliver_dataReceived ==
    /\ queue # <<>>
    /\ delivered' = Append(delivered, Head(queue))
    /\ queue' = Tail(queue)
    /\ UNCHANGED <<tracing, wire>>
    /\ UNCHANGED <<wvars, rvars, cvars, uvars, avars>>

\* The worker thread and the slot, without commands and without stop().
NextDeliver ==
    \/ run_while
    \/ run_test_port
    \/ connect_open
    \/ connect_settled
    \/ connect_fail
    \/ run_backoff
    \/ run_poll_idle
    \/ run_poll_line
    \/ run_read_error
    \/ deliver_dataReceived

InitTrace == wire = <<>> /\ queue = <<>> /\ delivered = <<>>

Init ==
    InitWorker /\ InitReader /\ InitCal /\ InitTrace /\ InitAvg /\ tracing = FALSE

\* A worker whose lines are followed from the port to handle_data.
InitDeliver ==
    InitWorker /\ InitReader /\ InitCal /\ InitTrace /\ InitAvg /\ tracing = TRUE

SpecDeliver == InitDeliver /\ [][NextDeliver]_vars

Spec == Init /\ [][Next]_vars

\* One step of run() on the worker's thread.
WorkerStep ==
    \/ run_while
    \/ run_test_port
    \/ connect_open
    \/ connect_settled
    \/ connect_fail
    \/ run_backoff
    \/ run_poll_idle
    \/ run_poll_line
    \/ run_read_error

\* The worker thread and stop() calls from the window's thread.
NextStop ==
    \/ run_while
    \/ run_test_port
    \/ connect_open
    \/ connect_settled
    \/ connect_fail
    \/ run_backoff
    \/ run_poll_idle
    \/ run_poll_line
    \/ run_read_error
    \/ stop_set
    \/ stop_close

\* run() is the body of a thread of its own: it is scheduled as long as it
\* has a step to take, and each serial call and each sleep it makes returns.
SpecStop == Init /\ [][NextStop]_vars /\ WF_vars(WorkerStep)

\* The reader window alone: its worker (a SensorReader_V12 one) stands still.
InitReaderOnly == Init /\ variant = "SensorReader_V12"

SpecReader == InitReaderOnly /\ [][NextReader]_vars

\* The reader window from a complete block on, with its averaging controls.
SpecAvg == InitReaderOnly /\ [][NextAvg]_vars

\* The calibration window alone: its worker (a Calibrator_V13 one) stands still.
InitCalOnly == Init /\ variant = "Calibrator_V13"

SpecCal == InitCalOnly /\ [][NextCal]_vars

\* The calibration window with every line passing through its worker.
InitPipe == InitDeliver /\ variant = "Calibrator_V13"

SpecPipe == InitPipe /\ [][NextCal]_vars

\* The decoder of either program: the reader window of SensorReader_V12.py
\* or the calibration window of Calibrator_V13.py.
NextBlocks ==
    \/ reader_handle_data
    \/ reader_connect
    \/ reader_disconnect
    \/ cal_feed_header
    \/ cal_feed_section
    \/ cal_feed_equation
    \/ cal_feed_points_title
    \/ cal_feed_point
    \/ cal_feed_quality
    \/ cal_feed_other
    \/ cal_feed_status

SpecBlocks == Init /\ [][NextBlocks]_vars

(***************************************************************************)
(* Claims about SerialWorker (checked under Spec)                          *)
(***************************************************************************)

\* C3 as stated: after N consecutive failed connect() attempts the delay
\* slept before the next attempt is min(2^N, 30).
C3_DelayIsTwoToTheN ==
    lastSlept # 0 => lastSlept = Min(2 ^ fails, 30)

\* C3 (amended): after N >= 1 consecutive failed connect() attempts the
\* delay slept before attempt N+1 is min(2^(N-1), 30): 1, 2, 4, 8, 16, 30, ...
C3_DelayIsTwoToTheNMinusOne ==
    lastSlept # 0 => /\ fails >= 1
                     /\ lastSlept = Min(2 ^ (fails - 1), 30)

C3_Witness == lastSlept = 30 /\ fails >= 6 /\ everConnected

\* C4: after a successful connect() reconnect_delay is 1, and the sleep after
\* the next failed attempt lasts 1, whatever failed before the success.
C4_ResetOnConnect ==
    everConnected =>
        /\ fails = 0 => reconnect_delay = 1
        /\ (fails = 1 /\ wpc = "sleep") => reconnect_delay = 1
        /\ (fails = 1 /\ lastSlept # 0) => lastSlept = 1

C4_Witness ==
    everConnected /\ failsBefore >= 3 /\ fails = 1 /\ lastSlept = 1

\* C5: once stop() has returned no signal is emitted any more, and when the
\* worker thread has finished as well the serial port is closed.
C5_StopQuiesces ==
    stopReturned =>
        /\ emitted = <<>>
        /\ wpc = "done" => ~IsOpen(serial_port)

\* A send_command() call has just returned without a failing write.
SendReturned ==
    /\ upc = "idle"
    /\ last \in {"send_command_check", "send_command_write"}

\* C6: send_command(cmd) never raises; with no open port it returns False and
\* writes nothing; with the port open it writes cmd and one "\n" and returns
\* True (the port is the one the call found at its write).
C6_SendCommand ==
    /\ raised = FALSE
    /\ SendReturned =>
          IF IsOpen(serial_port)
          THEN sendResult = "True" /\ written = cmd \o <<"\n">>
          ELSE sendResult = "False" /\ written = <<>>
    /\ last = "send_command_write_error" => sendResult = "False"

C6_Witness ==
    /\ SendReturned
    /\ sendResult = "True"
    /\ written = <<"R","E","A","D","\n">>
    /\ hadReadError
    /\ wpc = "poll"

\* C7: a failing write closes the Transport (the worker then reconnects) and
\* is reported as an error event, not raised.
C7_WriteFailureDowngrades ==
    last = "send_command_write_error" =>
        /\ ~IsOpen(serial_port)
        /\ \E i \in DOMAIN emitted : emitted[i].sig = "errorOccurred"
        /\ raised = FALSE

\* The "connection lost" signals among those the last step emitted.
LostEmitted == {i \in DOMAIN emitted : emitted[i] = LostSig(variant)}

\* C8 as stated: a read error closes the Transport, emits one "connection
\* lost" and the next connect attempt comes only after a backoff sleep.
C8_ReadErrorBacksOff ==
    /\ last = "run_read_error" =>
          ~IsOpen(serial_port) /\ Cardinality(LostEmitted) = 1
    /\ sinceLost # "attempt_unslept"

\* C8 (amended): a read error closes the Transport, emits one "connection
\* lost" and the worker goes straight to the next connect attempt: no backoff
\* sleep lies between the lost connection and that attempt.
C8_ReadErrorReconnectsAtOnce ==
    /\ last = "run_read_error" =>
          /\ ~IsOpen(serial_port)
          /\ Cardinality(LostEmitted) = 1
          /\ wpc = "while"
    /\ sinceLost = "lost" => wpc \in {"while", "test", "connect", "done"}
    /\ sinceLost # "slept"

C8_Witness == sinceLost = "attempt_unslept" /\ wpc = "sleep" /\ ~stopCalled

\* C9: while stop() has not been called run() has not exited: the worker is
\* connected and polling, or on its way to a connect attempt.
C9_RunNeverExits ==
    ~stopCalled =>
        /\ wpc # "done"
        /\ IF IsOpen(serial_port)
           THEN wpc \in {"settle", "while", "test", "poll"}
           ELSE wpc \in {"while", "test", "connect", "sleep"}

C9_Witness ==
    /\ ~stopCalled
    /\ hadReadError
    /\ hadWriteError
    /\ fails >= 2
    /\ wpc = "sleep"

(***************************************************************************)
(* Claims about SensorReaderSegment1.handle_data, checked under SpecReader *)
(***************************************************************************)

\* The lines seq (numbers of ReaderLines) carry field k.
Carries(seq, k) == \E i \in DOMAIN seq : ReaderLines[seq[i]][k] # <<>>

\* The lines seq carry the EC, the Temp/T and the pH field.
CarriesAll(seq) == \A k \in ReaderKeys : Carries(seq, k)

\* The value the device sent last for field k in the lines seq.
LastSent(seq, k) ==
    LET i == CHOOSE j \in DOMAIN seq :
                 /\ ReaderLines[seq[j]][k] # <<>>
                 /\ \A h \in DOMAIN seq : h > j => ReaderLines[seq[h]][k] = <<>>
    IN  ReaderLines[seq[i]][k][1]

\* C1: after a "SENSOR READINGS" header no reading is produced until the
\* lines fed since carry all three fields; parse_sensor_readings is called
\* exactly once, on the line that brings the last missing field, with the three
\* fields the device sent, and _reading_buffer is None afterwards.
C1_OneReadingOnLastField ==
    sawHeader =>
        /\ produced =
              IF /\ CarriesAll(fedSince)
                 /\ ~CarriesAll(SubSeq(fedSince, 1, Len(fedSince) - 1))
              THEN <<[k \in ReaderKeys |-> LastSent(fedSince, k)]>>
              ELSE <<>>
        /\ callsSince = IF CarriesAll(fedSince) THEN 1 ELSE 0
        /\ CarriesAll(fedSince) <=> reading_buffer = <<>>

\* A reading produced by the third line after the header, the pH line first.
C1_Witness ==
    /\ sawHeader
    /\ produced # <<>>
    /\ Len(fedSince) = 3
    /\ ReaderLines[fedSince[1]].ph # <<>>
    /\ ReaderLines[fedSince[1]].ec = <<>>
    /\ ReaderLines[fedSince[3]].temp # <<>>
    /\ reading_buffer = <<>>

\* C10: a "SENSOR READINGS" header that arrives while a block is being
\* collected produces no reading and leaves an empty buffer, and every value
\* of the reading produced next was sent after that header.
C10_SecondHeaderDiscards ==
    /\ rlast = 1 => produced = <<>> /\ reading_buffer = << <<>> >>
    /\ produced # <<>> =>
          \A k \in DOMAIN produced[1] :
              \E i \in DOMAIN fedSince :
                  ReaderLines[fedSince[i]][k] = <<produced[1][k]>>

\* A reading produced after a header that discarded collected fields.
C10_Witness == discardedKeys # {} /\ produced # <<>>

(***************************************************************************)
(* Claims about the EQUATIONS decoder, checked under SpecCal               *)
(***************************************************************************)

\* C2: while the lines of a four-section response arrive, with no other line
\* among them, update_from_equations is called on the Quality: line of the
\* Temperature section and on no line before it, and the result map then
\* holds exactly the channels that had a P<n>: line, each with the C and D of
\* its Equation: line, its points in the order sent and the R2 of its Quality:
\* line.
C2_FourSectionResult ==
    (blockClean /\ clast \notin {"none", "other"}) =>
        IF clast = "last_quality"
        THEN updates = 1 /\ ~plotError /\ sensor_data = intended
        ELSE updates = 0

\* C11: when a response made of its own lines only has been decoded, a
\* channel whose section had an Equation: line and no P<n>: line is absent
\* from plot_widget.sensor_data, whatever was decoded before.
C11_ZeroPointSectionOmitted ==
    (blockClean /\ clast = "last_quality") =>
        \A sec \in DOMAIN CalSections :
            CalSections[sec].ch \notin DOMAIN intended
                => CalSections[sec].ch \notin DOMAIN sensor_data

\* C12: outside a block, the line "pH: 7.02 R2=0.9991" reaches
\* QualityWidget.update_from_data and sets the pH metric to 0.9991.
C12_PhQualityLine ==
    (/\ clast = "other"
     /\ otherLine = <<<<"p","H",":"," ","7",".","0","2"," ","R","2","=","0",".","9","9","9","1">>>>
     /\ devPhase = "idle") =>
        /\ dispatched = "quality_widget.update_from_data"
        /\ metrics.ph = <<Dec(9991, 4)>>

\* The records the segments segs stand for, from the i-th on, in order.
RECURSIVE SegmentRecords(_, _)
SegmentRecords(segs, i) ==
    IF i > Len(segs) THEN <<>>
    ELSE StatusSegments[segs[i]].rec \o SegmentRecords(segs, i + 1)

\* C13: parse_status_compact logs one record for every segment that has two
\* colon-separated parts and three comma-separated values (calibrated iff the
\* first value is "1", then the point count, then R2), in order, and skips
\* every other segment without touching the records of the rest.
C13_StatusCompactSegments ==
    clast = "status" =>
        /\ dispatched = "parse_status_compact"
        /\ statusLog = SegmentRecords(statusSegs, 1)

\* A damaged segment between two whole ones: two records are logged.
C13_Witness ==
    /\ clast = "status"
    /\ Len(statusSegs) = 3
    /\ StatusSegments[statusSegs[1]].rec # <<>>
    /\ StatusSegments[statusSegs[2]].rec = <<>>
    /\ StatusSegments[statusSegs[3]].rec # <<>>
    /\ Len(statusLog) = 2
    /\ statusLog[2].sensor = StatusSegments[statusSegs[3]].rec[1].sensor

\* The last of the lines seq that carries field k.
LastCarrier(seq, k) ==
    seq[CHOOSE j \in DOMAIN seq :
            /\ ReaderLines[seq[j]][k] # <<>>
            /\ \A h \in DOMAIN seq : h > j => ReaderLines[seq[h]][k] = <<>>]

\* What the device reported with field k of line n of ReaderLines: <<the
\* number>>, or <<>> for a sensor that is not calibrated.
SentValue(n, k) ==
    CASE n = 2 /\ k = "ec"   -> <<Dec(0, 1)>>
      [] n = 4 /\ k = "temp" -> <<Dec(221, 1)>>
      [] n = 5 /\ k = "temp" -> <<Dec(-35, 1)>>
      [] n = 6 /\ k = "ph"   -> <<Dec(524, 2)>>
      [] n = 8 /\ k = "ec"   -> <<Dec(12053, 1)>>
      [] n = 8 /\ k = "temp" -> <<Dec(252, 1)>>
      [] n = 8 /\ k = "ph"   -> <<Dec(685, 2)>>
      [] OTHER               -> <<>>

\* The block that the last line completed has an EC or a pH field that says
\* NOT CALIBRATED, in some letter case.
NotCalibratedSent ==
    /\ produced # <<>>
    /\ \E k \in {"ec", "ph"} : SentValue(LastCarrier(fedSince, k), k) = <<>>

\* C14: a block whose EC or pH field says NOT CALIBRATED, in any letter case,
\* is complete with that field, and parse_sensor_readings shows the reading
\* with None for that field and the numbers sent for the other fields,
\* without a parse error.
C14_NotCalibratedIsMarker ==
    /\ (sawHeader /\ CarriesAll(fedSince)
          /\ ~CarriesAll(SubSeq(fedSince, 1, Len(fedSince) - 1)))
       => produced # <<>>
    /\ NotCalibratedSent =>
          /\ ~parseError
          /\ reading = <<[k \in ReaderKeys |->
                             SentValue(LastCarrier(fedSince, k), k)]>>

\* A reading with a lower-case "not calibrated" pH and a numeric EC.
C14_Witness ==
    /\ NotCalibratedSent
    /\ LastCarrier(fedSince, "ph") = 7
    /\ LastCarrier(fedSince, "ec") = 2
    /\ reading # <<>>
    /\ reading[1].ph = <<>>
    /\ reading[1].ec = <<0>>

C16_BufferOnlyWhileCollecting ==
    /\ equations_buffer # <<>> => in_equations
    /\ updates = 1 => ~in_equations /\ equations_buffer = <<>>

\* A block ended whose parse failed: Idle with an empty buffer.
C16_Witness ==
    /\ updates = 1
    /\ plotError
    /\ clast = "last_quality"
    /\ ~in_equations
    /\ equations_buffer = <<>>

\* C17: a disconnect() while a block is partly collected discards the
\* decoder state: after the next connect() the decoder is Idle, and no
\* reading is produced from a block that a disconnect() interrupted.
C17_DisconnectDiscardsBlock ==
    /\ rcall = "connect" => reading_buffer = <<>>
    /\ (rcall = "handle_data" /\ produced # <<>>) => ~cutSince

(***************************************************************************)
(* Claims about the path of a line, checked under SpecDeliver              *)
(***************************************************************************)

\* The text the device sent with a line of WireLines.
WireText(raw) == IF raw = <<"\r", "\n">> THEN <<>> ELSE <<"O", "K">>

\* The texts of the lines read so far, in the order read.
WireTexts == [i \in 1..Len(wire) |-> WireText(wire[i])]

OpenPorts == (IF IsOpen(serial_port) THEN 1 ELSE 0) + oldOpen

ReaderRepeated ==
    /\ produced # <<>>
    /\ prevSession # <<>>
    /\ prevSession[1].fed = fedSince

\* The calibration window has just completed a response that reports what
\* the response before it reported, no other line arriving inside either.
CalRepeated ==
    /\ clast = "last_quality"
    /\ prevBlock # <<>>
    /\ prevBlock[1].clean
    /\ blockClean
    /\ prevBlock[1].sent = intended

C20_ReaderWitness ==
    /\ ReaderRepeated
    /\ Len(fedSince) = 3
    /\ reading # <<>>
    /\ reading[1].ec = <<>>

\* What stop() may change: everything else of the worker stays as it is.
StopFrame ==
    /\ emitted' = <<>>
    /\ UNCHANGED <<reconnect_delay, wpc, cmd, sendResult, written, raised,
                   fails, failsBefore, everConnected, lastSlept, sinceLost,
                   hadReadError, hadWriteError, variant>>

\* C21: a stop() call that is not the first one made on the worker leaves
\* running False and the port not open, raises nothing and emits nothing, and
\* changes nothing else: a port that is not open stays what it is.
C21_StopIdempotent ==
    [][ /\ (stop_set /\ stopCalls >= 1) =>
              /\ running' = FALSE
              /\ UNCHANGED serial_port
              /\ StopFrame
        /\ (stop_close /\ stopCalls >= 2) =>
              /\ running' = FALSE
              /\ ~IsOpen(serial_port')
              /\ (~IsOpen(serial_port) => serial_port' = serial_port)
              /\ StopFrame
      ]_vars

\* The second stop() has returned on a worker that never opened its port.
C21_Witness ==
    /\ last = "stop_close"
    /\ stopCalls = 2
    /\ serial_port = "None"
    /\ ~everConnected
    /\ ~running

(***************************************************************************)
(* Claims about lines inside an EQUATIONS block, checked under SpecCal     *)
(***************************************************************************)

\* The last call was given an empty or whitespace-only line while the first
\* response of the run was being collected.
BlankInBlock ==
    /\ clast = "other"
    /\ otherLine # <<>>
    /\ Strip(otherLine[1]) = <<>>
    /\ devPhase # "idle"

\* What the lines of the first response sent so far report: the sections
\* sent completely, and the section being sent if it has a point line (its
\* Quality: line is still to come).
ReportedSoFar ==
    IF devPhase = "points" /\ devPts >= 1
    THEN DictPut(intended, CalSections[devSec].ch,
                 [Reported(devSec, devPts) EXCEPT !.R2 = 0])
    ELSE intended

HeaderInBlock ==
    /\ clast = "other"
    /\ otherLine # <<>>
    /\ Strip(otherLine[1]) = CALIBRATION_EQUATIONS
    /\ devPhase # "idle"

\* C23: a "CALIBRATION EQUATIONS" header that arrives while a block is
\* collected leaves the decoder collecting with a buffer that holds the header
\* alone; nothing is parsed and no result is produced for the lines dropped.
C23_HeaderInBlockRestarts ==
    HeaderInBlock =>
        /\ in_equations
        /\ equations_buffer = <<otherLine[1]>>
        /\ updates = 0
        /\ dispatched = "none"
        /\ sensor_data = <<>>
        /\ ~plotError

\* The header arrived after a point line of the pH section.
C23_Witness ==
    /\ HeaderInBlock
    /\ devSec = 3
    /\ devPhase = "points"
    /\ devPts = 1
    /\ Len(equations_buffer) = 1

\* The line the last call was given.
LastLine ==
    CASE clast = "header" -> CALIBRATION_EQUATIONS
      [] clast = "section" -> CalSections[devSec].hdr
      [] clast = "equation" -> CalSections[devSec].eq
      [] clast = "points_title" -> CALIBRATION_POINTS
      [] clast = "point" -> CalSections[devSec].pts[devPts].text
      [] clast \in {"quality", "last_quality"} -> CalSections[devSec].q
      [] OTHER -> otherLine[1]

\* One of the lines has the text in it.
SomeLineHas(lines, text) == \E i \in DOMAIN lines : Contains(lines[i], text)

\* Completion condition 4a or 4b for the buffer lines and their last line.
Completes(lines) ==
    \/ /\ SomeLineHas(lines, HDR_T)
       /\ StartsWith(Strip(lines[Len(lines)]), <<"Q","u","a","l","i","t","y",":">>)
    \/ /\ Strip(lines[Len(lines)]) = <<>>
       /\ SomeLineHas(lines, <<"-","-","-">>)

PollIntervalMs == 50

\* C25: when stop() is called while the worker is in its backoff sleep, the
\* worker leaves the sleep within one polling interval of the call.
C25_StopCancelsSleep ==
    (heldFor # <<>> /\ last = "run_backoff") =>
        heldFor[1] * 1000 <= PollIntervalMs

\* C26: once stop() has been called, run() returns, whatever the worker was
\* doing: connecting, sleeping before the next attempt, or polling the port.
C26_RunReturnsAfterStop == stopCalled ~> (wpc = "done")

\* run() has returned after a stop() that came during the backoff sleep.
C26_Witness ==
    /\ stopCalled
    /\ wpc = "done"
    /\ heldFor # <<>>
    /\ lastSlept >= 2

\* C27: reconnect_delay is always between 1 and 30; the sleep after a failed
\* attempt doubles it up to 30, and it gets smaller only when connect()
\* succeeds (or the window makes a new worker), where it becomes 1.
C27_DelayBetween1And30 ==
    /\ [](reconnect_delay \in 1..30)
    /\ [][ /\ run_backoff =>
                 reconnect_delay' =
                     IF reconnect_delay * 2 > 30 THEN 30
                     ELSE reconnect_delay * 2
           /\ reconnect_delay' < reconnect_delay =>
                 /\ connect_settled \/ window_connect
                 /\ reconnect_delay' = 1
           /\ reconnect_delay' > reconnect_delay => run_backoff
         ]_vars

\* The delay stays 30 over a sleep of 30.
C27_Witness ==
    /\ last = "run_backoff"
    /\ lastSlept = 30
    /\ reconnect_delay = 30

(***************************************************************************)
(* Claims about lines that reach CalibrationWindow through SerialWorker,   *)
(* checked under SpecPipe                                                  *)
(***************************************************************************)

\* The device has just sent an empty or whitespace-only line.
BlankSent ==
    /\ clast = "other"
    /\ otherLine # <<>>
    /\ Strip(otherLine[1]) = <<>>

GivenNotCalibrated(r) == AvgReadings[r].ec = <<>> \/ AvgReadings[r].ph = <<>>

\* The values of block r are all inside the configured range
\* (EC 0..20000, temperature -10..60, pH 0..14).
GivenInRange(r) ==
    /\ Dec(0, 0) <= AvgReadings[r].ec[1] /\ AvgReadings[r].ec[1] <= Dec(20000, 0)
    /\ Dec(-10, 0) <= AvgReadings[r].temp[1] /\ AvgReadings[r].temp[1] <= Dec(60, 0)
    /\ Dec(0, 0) <= AvgReadings[r].ph[1] /\ AvgReadings[r].ph[1] <= Dec(14, 0)

\* Block r is a valid calibrated reading.
GivenValid(r) == ~GivenNotCalibrated(r) /\ GivenInRange(r)

\* The values the device sent in block r.
GivenValues(r) ==
    <<AvgReadings[r].ec[1], AvgReadings[r].temp[1], AvgReadings[r].ph[1]>>

\* The sum of field k of the readings b.
Total(b, k) ==
    LET RECURSIVE T(_)
        T(i) == IF i = 0 THEN 0 ELSE b[i][k] + T(i - 1)
    IN  T(Len(b))

\* C29: _avg_count is at least 1 and the averaging buffer always holds fewer
\* readings than _avg_count; parse_sensor_readings adds one entry to
\* collected_data, the mean of the buffered readings, when the reading it is
\* given is the _avg_count-th valid calibrated one since the buffer was
\* emptied, and none otherwise; on_avg_changed and toggle_measurements add
\* none.
C29_AveragingWindow ==
    /\ [](avg_count >= 1 /\ Len(avg_buffer) < avg_count)
    /\ [][ /\ reader_parse_sensor_readings =>
                 IF GivenValid(given') /\ Len(avg_buffer) + 1 = avg_count
                 THEN LET b == Append(avg_buffer, GivenValues(given'))
                      IN  /\ Len(collected_data') = Len(collected_data) + 1
                          /\ SubSeq(collected_data', 1, Len(collected_data))
                                = collected_data
                          /\ \A k \in 1..3 :
                               <<collected_data'[Len(collected_data')].ec,
                                 collected_data'[Len(collected_data')].temp,
                                 collected_data'[Len(collected_data')].ph>>[k]
                                   = <<Total(b, k), avg_count>>
                          /\ avg_buffer' = <<>>
                 ELSE /\ UNCHANGED collected_data
                      /\ avg_buffer' =
                            IF GivenValid(given')
                            THEN Append(avg_buffer, GivenValues(given'))
                            ELSE avg_buffer
           /\ (on_avg_changed \/ toggle_measurements) =>
                 UNCHANGED collected_data
         ]_vars

\* The second valid reading of a window of two has given a data point, the
\* mean of two different readings.
C29_Witness ==
    /\ alast = "parse_sensor_readings"
    /\ avg_count = 2
    /\ avg_buffer = <<>>
    /\ Len(collected_data) = 1
    /\ collected_data[1].ec = <<Dec(12053, 1), 2>>

\* C30: a completed reading in which EC or pH is NOT CALIBRATED, or that has
\* a value outside the validation range, changes the live labels only: the
\* averaging buffer, the plot series, the statistics history, collected_data
\* and the background log stay as they are.
C30_RejectedReadingOnlyShown ==
    [][ (reader_parse_sensor_readings /\ ~GivenValid(given')) =>
            /\ UNCHANGED <<avg_buffer, plot_data, stats_history,
                           collected_data, logged>>
            /\ UNCHANGED <<avg_count, is_logging>>
            /\ reading' = <<[ec |-> AvgReadings[given'].ec,
                             temp |-> AvgReadings[given'].temp,
                             ph |-> AvgReadings[given'].ph]>>
      ]_vars

\* A reading with the temperature below the range came while the buffer held
\* a reading and the log was being written.
C30_Witness ==
    /\ alast = "parse_sensor_readings"
    /\ given = 6
    /\ Len(avg_buffer) = 1
    /\ is_logging
    /\ reading # <<>>
    /\ reading[1].temp = <<Dec(-105, 1)>>

====
